---- MODULE Spec2Model ----
(***************************************************************************)
(* Data-access layer of the calibration order system                       *)
(* (src/services/mockGasService.ts): transport selection, key              *)
(* normalisation, the HTTP and embedded-host adapters, and the order-line  *)
(* operations over the local persisted store.                              *)
(*                                                                         *)
(* JavaScript strings that the code inspects character by character are    *)
(* sequences of one-character strings; JSON values are tagged records.     *)
(***************************************************************************)
EXTENDS Integers, Sequences, FiniteSets, TLC

VARIABLES
    wire,        \* what the backend sends for the adapter call under study
    settled,     \* how the adapter promise settled: [state, value]
    again,       \* normalizeData applied once more to a resolved value
    posts,       \* number of POST requests issued by callApi
    host,        \* how much of window.google.script.run exists
    envUrl,      \* import.meta.env.VITE_GAS_API_URL
    apiUrl,      \* HybridGasService.apiUrl
    lastCall,    \* the latest service call: operation, arguments, transport
    prevCall,    \* transport and bridge of the call before it
    svc,         \* which service class is exported as mockGasService
    cal_orders,  \* localStorage item 'cal_orders'
    now,         \* Date.now()
    nCalls,      \* service calls made so far
    lastResult,  \* what the latest call resolved with
    cal_admin_pwd,   \* localStorage item 'cal_admin_pwd'
    cal_inventory,   \* localStorage item 'cal_inventory'
    cal_customers,   \* localStorage item 'cal_customers'
    cal_technicians, \* localStorage item 'cal_technicians'
    cache,           \* the cache layer: entry per resource key
    pending,         \* transport calls of optimistic writes still in flight
    forms            \* the open order forms: fields, lists and submission

adapterVars == <<wire, settled, again, posts>>
envVars == <<host, envUrl, apiUrl>>
callVars == <<lastCall, prevCall, nCalls, lastResult>>
storeVars == <<svc, cal_orders, now>>
otherItems == <<cal_admin_pwd, cal_inventory, cal_customers, cal_technicians>>
layerVars == <<cache, pending>>
formVars == <<forms>>

vars == <<wire, settled, again, posts, host, envUrl, apiUrl, lastCall, prevCall,
          svc, cal_orders, now, nCalls, lastResult, cal_admin_pwd,
          cal_inventory, cal_customers, cal_technicians, cache, pending,
          forms>>

----------------------------------------------------------------------------
(* JavaScript strings                                                       *)

UpperChars ==
    <<"A","B","C","D","E","F","G","H","I","J","K","L","M",
      "N","O","P","Q","R","S","T","U","V","W","X","Y","Z">>

LowerChars ==
    <<"a","b","c","d","e","f","g","h","i","j","k","l","m",
      "n","o","p","q","r","s","t","u","v","w","x","y","z">>

\* String.prototype.toLowerCase on one character
charToLowerCase(c) ==
    IF \E i \in 1..Len(UpperChars) : UpperChars[i] = c
    THEN LowerChars[CHOOSE i \in 1..Len(UpperChars) : UpperChars[i] = c]
    ELSE c

\* String.prototype.toLowerCase
toLowerCase(s) == [i \in 1..Len(s) |-> charToLowerCase(s[i])]

\* key.charAt(0): the empty string when the key is empty
charAt0(s) == IF Len(s) = 0 THEN <<>> ELSE <<s[1]>>

\* key.slice(1)
slice1(s) == IF Len(s) = 0 THEN <<>> ELSE Tail(s)

WhiteSpace == {" ", "\t", "\n", "\r"}

RECURSIVE trimStart(_)
trimStart(s) ==
    IF Len(s) > 0 /\ Head(s) \in WhiteSpace THEN trimStart(Tail(s)) ELSE s

RECURSIVE trimEnd(_)
trimEnd(s) ==
    IF Len(s) > 0 /\ s[Len(s)] \in WhiteSpace
    THEN trimEnd(SubSeq(s, 1, Len(s) - 1))
    ELSE s

\* String.prototype.trim
trim(s) == trimEnd(trimStart(s))

\* String.prototype.includes
includes(s, sub) ==
    \E i \in 0..(Len(s) - Len(sub)) : SubSeq(s, i + 1, i + Len(sub)) = sub

Digits == <<"0","1","2","3","4","5","6","7","8","9">>

\* String(n) for a non-negative integer
RECURSIVE numToString(_)
numToString(n) ==
    IF n < 10 THEN <<Digits[n + 1]>>
    ELSE numToString(n \div 10) \o <<Digits[(n % 10) + 1]>>

\* string literals of the source
s_ID == <<"I","D">>
s_id == <<"i","d">>
s_Id == <<"I","d">>
s_OrderNumber == <<"O","r","d","e","r","N","u","m","b","e","r">>
s_orderNumber == <<"o","r","d","e","r","N","u","m","b","e","r">>
s_ordernumber == <<"o","r","d","e","r","n","u","m","b","e","r">>
s_ID_OrderNumber == <<"I","D",","," ">> \o s_OrderNumber
s_API_Error == <<"A","P","I"," ","E","r","r","o","r">>

----------------------------------------------------------------------------
(* JSON values                                                              *)

JNull == [t |-> "null"]
JUndef == [t |-> "undefined"]
JBool(b) == [t |-> "bool", b |-> b]
JNum(n) == [t |-> "num", n |-> n]
JStr(s) == [t |-> "str", s |-> s]
JArr(items) == [t |-> "arr", items |-> items]
JObj(entries) == [t |-> "obj", entries |-> entries]

\* own keys of an object in Object.keys order
ObjectKeys(o) == [i \in 1..Len(o.entries) |-> o.entries[i].k]

HasKey(o, key) == \E i \in 1..Len(o.entries) : o.entries[i].k = key

\* o[key]; undefined when the key is absent
GetProp(o, key) ==
    IF o.t = "obj" /\ HasKey(o, key)
    THEN o.entries[CHOOSE i \in 1..Len(o.entries) : o.entries[i].k = key].v
    ELSE JUndef

\* o[key] = v: an existing key keeps its position, a new key is appended
SetProp(o, key, v) ==
    IF HasKey(o, key)
    THEN JObj([i \in 1..Len(o.entries) |->
                 IF o.entries[i].k = key THEN [k |-> key, v |-> v]
                 ELSE o.entries[i]])
    ELSE JObj(Append(o.entries, [k |-> key, v |-> v]))

\* JavaScript truthiness
Truthy(v) ==
    CASE v.t = "null" -> FALSE
      [] v.t = "undefined" -> FALSE
      [] v.t = "bool" -> v.b
      [] v.t = "num" -> v.n # 0
      [] v.t = "str" -> Len(v.s) > 0
      [] OTHER -> TRUE

\* String(v) for the scalars an order number can be
String(v) ==
    CASE v.t = "str" -> v.s
      [] v.t = "num" -> numToString(v.n)
      [] v.t = "bool" -> IF v.b THEN <<"t","r","u","e">> ELSE <<"f","a","l","s","e">>
      [] OTHER -> <<>>

----------------------------------------------------------------------------
(* Key Normalizer                                                           *)

\* a key rewrite that lower-cases the first upper-case letter wherever it is
RECURSIVE lowerFirstUpper(_)
lowerFirstUpper(key) ==
    IF Len(key) = 0 THEN <<>>
    ELSE IF charToLowerCase(Head(key)) # Head(key)
         THEN <<charToLowerCase(Head(key))>> \o Tail(key)
         ELSE <<Head(key)>> \o lowerFirstUpper(Tail(key))

newKeyAnyUpper(key) == IF key = s_ID THEN s_id ELSE lowerFirstUpper(key)

\* a key rewrite that lower-cases the whole key
newKeyAllLower(key) == IF key = s_ID THEN s_id ELSE toLowerCase(key)

\* the key rewrite of normalizeData
newKey(key) ==
    IF key = s_ID THEN s_id
    ELSE toLowerCase(charAt0(key)) \o slice1(key)

RECURSIVE normalizeData(_)
RECURSIVE normalizeEntries(_, _, _)

\* Object.keys(data).forEach(key => newObj[newKey] = normalizeData(data[key]))
normalizeEntries(entries, i, newObj) ==
    IF i > Len(entries) THEN newObj
    ELSE normalizeEntries(entries, i + 1,
             SetProp(newObj, newKey(entries[i].k), normalizeData(entries[i].v)))

normalizeData(data) ==
    IF data.t = "arr"
    THEN JArr([i \in 1..Len(data.items) |-> normalizeData(data.items[i])])
    ELSE IF data.t = "obj"
         THEN normalizeEntries(data.entries, 1, JObj(<<>>))
         ELSE data

----------------------------------------------------------------------------
(* Read-path validity filter of getOrders                                   *)

\* the comparison of the order number without toLowerCase
orderNumberOkCaseSensitive(v) ==
    /\ Truthy(v)
    /\ trim(String(v)) # <<>>
    /\ String(v) # s_ordernumber
    /\ ~includes(String(v), s_ID_OrderNumber)

\* o.orderNumber && String(o.orderNumber).trim() !== '' && ...
orderNumberOk(v) ==
    /\ Truthy(v)
    /\ trim(String(v)) # <<>>
    /\ toLowerCase(String(v)) # s_ordernumber
    /\ ~includes(String(v), s_ID_OrderNumber)

\* the predicate handed to orders.filter
keepOrder(o) == Truthy(o) /\ orderNumberOk(GetProp(o, s_orderNumber))

filterOrders(items) == SelectSeq(items, keepOrder)

----------------------------------------------------------------------------
(* Transport adapters                                                       *)

Resolved(op, v) == [op |-> op, state |-> "resolved", value |-> v]
Rejected(op, e) == [op |-> op, state |-> "rejected", value |-> e]
Idle == [op |-> "none", state |-> "idle", value |-> JUndef]

NetworkError == [t |-> "error", message |-> <<"n","e","t">>]
TypeError == [t |-> "error", message |-> <<"t","y","p","e">>]

s_success == <<"s","u","c","c","e","s","s">>
s_status == <<"s","t","a","t","u","s">>
s_error == <<"e","r","r","o","r">>
s_data == <<"d","a","t","a">>

\* new Error(json.error || 'API Error')
ApiError(json) ==
    [t |-> "error",
     message |-> IF Truthy(GetProp(json, s_error))
                 THEN String(GetProp(json, s_error)) ELSE s_API_Error]

\* callApi rejecting whenever success is falsy, whatever status and error say
callApiStrict(w) ==
    IF w.net = "down" THEN Rejected("callApi", NetworkError)
    ELSE IF w.json.t \in {"null", "undefined"} THEN Rejected("callApi", TypeError)
    ELSE IF ~Truthy(GetProp(w.json, s_success))
         THEN Rejected("callApi", ApiError(w.json))
         ELSE Resolved("callApi", normalizeData(GetProp(w.json, s_data)))

\* callApi: one fetch, response.json(), the envelope test, normalizeData
callApi(w) ==
    IF w.net = "down" THEN Rejected("callApi", NetworkError)
    ELSE IF w.json.t \in {"null", "undefined"} THEN Rejected("callApi", TypeError)
    ELSE IF /\ ~Truthy(GetProp(w.json, s_success))
            /\ \/ GetProp(w.json, s_status) = JStr(s_error)
               \/ Truthy(GetProp(w.json, s_error))
         THEN Rejected("callApi", ApiError(w.json))
         ELSE Resolved("callApi", normalizeData(GetProp(w.json, s_data)))

\* JSON texts the host may hand to the success handler
t_emptyArray == <<"[","]">>
t_null == <<"n","u","l","l">>
t_seven == <<"7">>
t_garbage == <<"o","o","p","s">>

t_record == <<"{","\"","I","D","\"",":","7","}">>

JsonParses(text) == text \in {t_emptyArray, t_null, t_seven, t_record}

\* JSON.parse on those texts
JSONparse(text) ==
    CASE text = t_emptyArray -> JArr(<<>>)
      [] text = t_null -> JNull
      [] text = t_seven -> JNum(7)
      [] text = t_record -> JObj(<<[k |-> s_ID, v |-> JNum(7)]>>)

SyntaxError == [t |-> "error", message |-> <<"s","y","n","t","a","x">>]

\* callGasBackend letting the error of JSON.parse reach the caller
callGasBackendRaising(w) ==
    IF w.outcome = "failure" THEN Rejected("callGasBackend", w.error)
    ELSE IF w.response.t = "str" /\ ~JsonParses(w.response.s)
         THEN Rejected("callGasBackend", SyntaxError)
         ELSE Resolved("callGasBackend",
                       normalizeData(IF w.response.t = "str"
                                     THEN JSONparse(w.response.s) ELSE w.response))

\* callGasBackend: the success handler parses a string response (keeping the raw
\* string when the parse throws) and normalizes; the failure handler rejects
callGasBackend(w) ==
    IF w.outcome = "failure" THEN Rejected("callGasBackend", w.error)
    ELSE LET response == w.response
             data == IF response.t = "str" /\ JsonParses(response.s)
                     THEN JSONparse(response.s)
                     ELSE response
         IN Resolved("callGasBackend", normalizeData(data))

\* getOrders over a remote transport: await the adapter, then orders.filter(...)
getOrdersRemote(w) ==
    LET r == IF w.via = "gas" THEN callGasBackend(w) ELSE callApi(w)
    IN IF r.state = "rejected" THEN Rejected("getOrders", r.value)
       ELSE IF r.value.t # "arr" THEN Rejected("getOrders", TypeError)
       ELSE Resolved("getOrders", JArr(filterOrders(r.value.items)))

----------------------------------------------------------------------------
(* Bounded universe of backend responses                                    *)

MaxEntries == 2      \* keys per sampled record
MaxItems == 2        \* elements per sampled sequence
MaxLines == 3        \* order lines per sampled getOrders response

SampleKeys == {s_ID, s_id, s_Id, s_OrderNumber, <<>>}
SampleScalars == {JNull, JNum(7), JStr(s_ID)}

SeqsUpTo(S, n) == UNION {[1..m -> S] : m \in 0..n}

DistinctKeys(entries) ==
    \A i, j \in 1..Len(entries) : entries[i].k = entries[j].k => i = j

RecordsOver(V) ==
    {JObj(e) : e \in {x \in SeqsUpTo([k : SampleKeys, v : V], MaxEntries) :
                          DistinctKeys(x)}}

\* records, sequences and scalars nested to depth two
Json1 ==
    SampleScalars
      \cup {JArr(x) : x \in SeqsUpTo(SampleScalars, MaxItems)}
      \cup RecordsOver(SampleScalars)

Json2 ==
    Json1
      \cup {JArr(<<x>>) : x \in Json1}
      \cup {JObj(<<[k |-> key, v |-> x]>>) : key \in SampleKeys, x \in Json1}

s_A1 == <<"A","1">>
s_Acme == <<"A","c","m","e">>
\* equipment numbers 'EQ-...'; the customer names of the fallback datasets are
\* written as 'customer k'
s_EQ(digits) == <<"E","Q","-">> \o digits
s_customer(k) == <<"c","u","s","t","o","m","e","r"," ",k>>
s_B2 == <<"B","2">>

SampleOrderNumbers ==
    {JNull, JNum(0), JNum(7), JStr(<<>>), JStr(<<" ">>), JStr(s_A1),
     JStr(s_OrderNumber), JStr(s_ordernumber),
     JStr(<<"x">> \o s_ID_OrderNumber \o <<"y">>)}

\* rows as a spreadsheet-backed transport returns them
SampleRows ==
    {JObj(<<[k |-> s_OrderNumber, v |-> n]>>) : n \in SampleOrderNumbers}
      \cup {JNull, JObj(<<[k |-> s_Id, v |-> JNum(7)]>>),
            JObj(<<[k |-> s_orderNumber, v |-> JStr(s_B2)]>>)}

SampleOrderLists == {JArr(x) : x \in SeqsUpTo(SampleRows, MaxLines)}

SampleData == Json2 \cup SampleOrderLists

Envelope(success, status, error, data) ==
    JObj(SelectSeq(<<[k |-> s_success, v |-> success], [k |-> s_status, v |-> status],
                     [k |-> s_error, v |-> error], [k |-> s_data, v |-> data]>>,
                   LAMBDA e : e.v # JUndef))

s_ok == <<"o","k">>
s_msg == <<"m","s","g">>

\* every combination of the envelope's control fields, over a few payloads
SampleEnvelopes ==
    {Envelope(su, st, er, d) :
        su \in {JBool(TRUE), JBool(FALSE), JUndef},
        st \in {JStr(s_ok), JStr(s_error), JUndef},
        er \in {JUndef, JNull, JStr(<<>>), JStr(s_msg)},
        d \in {JUndef, JArr(<<>>), JObj(<<[k |-> s_ID, v |-> JNum(7)]>>)}}
      \cup {Envelope(JBool(TRUE), JStr(s_ok), JUndef, d) : d \in SampleData}
      \cup {JNull}

ApiWire(net, json) == [via |-> "api", net |-> net, json |-> json]
GasWire(outcome, response, error) ==
    [via |-> "gas", outcome |-> outcome, response |-> response, error |-> error]

SampleWires ==
    {ApiWire("ok", j) : j \in SampleEnvelopes}
      \cup {ApiWire("down", JUndef)}
      \cup {GasWire("success", d, JUndef) : d \in SampleData}
      \cup {GasWire("success", JStr(x), JUndef) :
                x \in {t_emptyArray, t_null, t_seven, t_record, t_garbage}}
      \cup {GasWire("failure", JUndef, JStr(s_msg))}

----------------------------------------------------------------------------
(* Adapter calls as steps                                                   *)

AdapterInit ==
    /\ wire \in SampleWires
    /\ settled = Idle
    /\ again = JUndef
    /\ posts = 0

CallApi ==
    /\ settled.state = "idle"
    /\ wire.via = "api"
    /\ settled' = callApi(wire)
    /\ posts' = posts + 1
    /\ UNCHANGED <<wire, again, envVars, callVars, storeVars, otherItems, layerVars, formVars>>

CallGasBackend ==
    /\ settled.state = "idle"
    /\ wire.via = "gas"
    /\ settled' = callGasBackend(wire)
    /\ UNCHANGED <<wire, again, posts, envVars, callVars, storeVars, otherItems, layerVars, formVars>>

GetOrdersRemote ==
    /\ settled.state = "idle"
    /\ settled' = getOrdersRemote(wire)
    /\ posts' = IF wire.via = "api" THEN posts + 1 ELSE posts
    /\ UNCHANGED <<wire, again, envVars, callVars, storeVars, otherItems, layerVars, formVars>>

\* a resolved value handed to normalizeData once more
NormalizeAgain ==
    /\ settled.state = "resolved"
    /\ settled.op \in {"callApi", "callGasBackend"}
    /\ again = JUndef
    /\ again' = [of |-> settled.value, is |-> normalizeData(settled.value)]
    /\ UNCHANGED <<wire, settled, posts, envVars, callVars, storeVars, otherItems, layerVars, formVars>>

AdapterNext == CallApi \/ CallGasBackend \/ GetOrdersRemote \/ NormalizeAgain


----------------------------------------------------------------------------
(* Properties of the Key Normalizer and the adapters (SpecAdapter)          *)

\* the value the adapter hands to normalizeData
RawData(w) ==
    IF w.via = "api" THEN GetProp(w.json, s_data)
    ELSE IF w.response.t = "str" /\ JsonParses(w.response.s)
         THEN JSONparse(w.response.s)
         ELSE w.response

AdapterResolved ==
    settled.state = "resolved" /\ settled.op \in {"callApi", "callGasBackend"}

\* the documented key rewrite: "ID" becomes "id", any other key has only its
\* first character lower-cased
Rewritten(key) ==
    IF key = s_ID THEN s_id
    ELSE IF key = <<>> THEN <<>>
    ELSE <<charToLowerCase(key[1])>> \o Tail(key)

RECURSIVE NormalForm(_, _)
NormalForm(x, y) ==
    CASE x.t = "arr" ->
           /\ y.t = "arr"
           /\ Len(y.items) = Len(x.items)
           /\ \A i \in 1..Len(x.items) : NormalForm(x.items[i], y.items[i])
      [] x.t = "obj" ->
           /\ y.t = "obj"
           /\ {y.entries[j].k : j \in 1..Len(y.entries)}
                = {Rewritten(x.entries[i].k) : i \in 1..Len(x.entries)}
           /\ \A j \in 1..Len(y.entries) :
                \E i \in 1..Len(x.entries) :
                    /\ Rewritten(x.entries[i].k) = y.entries[j].k
                    /\ NormalForm(x.entries[i].v, y.entries[j].v)
      [] OTHER -> y = x

\* C3: normalizeData is idempotent: normalizing an already normalized value
\* (records with the key "ID", or with keys that differ only in the case of
\* their first character, included) gives that value back.
C3_NormalizeIdempotent ==
    again # JUndef => again.is = again.of

C3_Witness ==
    /\ again # JUndef
    /\ RawData(wire).t = "obj"
    /\ HasKey(RawData(wire), s_ID)
    /\ HasKey(RawData(wire), s_Id)
    /\ ObjectKeys(again.is) = <<s_id>>

\* C4: normalizeData rewrites every key at every depth by lower-casing its
\* first character only ("ID" becoming "id"), keeps the length and order of
\* sequences, and passes scalars and null through unchanged.
C4_NormalizeRewritesKeys ==
    AdapterResolved => NormalForm(RawData(wire), settled.value)

C4_Witness ==
    /\ AdapterResolved
    /\ RawData(wire) =
         JObj(<<[k |-> s_ID,
                 v |-> JObj(<<[k |-> s_OrderNumber, v |-> JStr(s_ID)]>>)]>>)
    /\ settled.value =
         JObj(<<[k |-> s_id,
                 v |-> JObj(<<[k |-> s_orderNumber, v |-> JStr(s_ID)]>>)]>>)

ApiEnvelopeReceived ==
    settled.op = "callApi" /\ wire.net = "ok" /\ wire.json.t = "obj"

ErrorPresent(json) == GetProp(json, s_error).t \notin {"undefined", "null"}

\* C5 as stated: callApi rejects exactly when success is false and (status is
\* "error" or an error field is present), and otherwise resolves.
C5_RejectsWhenErrorPresent ==
    ApiEnvelopeReceived =>
        (settled.state = "rejected" <=>
            /\ ~Truthy(GetProp(wire.json, s_success))
            /\ \/ GetProp(wire.json, s_status) = JStr(s_error)
               \/ ErrorPresent(wire.json))

\* C5 as amended: given a response envelope, callApi rejects exactly when
\* success is falsy and (status is "error" or error is a truthy, i.e. non-empty,
\* value); the rejection carries the envelope's error message (or 'API Error');
\* otherwise it resolves with the normalized data field; a call issues one POST.
C5_RejectsWhenErrorTruthy ==
    /\ settled.op = "callApi" => posts = 1
    /\ ApiEnvelopeReceived =>
         /\ settled.state = "rejected" <=>
              /\ ~Truthy(GetProp(wire.json, s_success))
              /\ \/ GetProp(wire.json, s_status) = JStr(s_error)
                 \/ Truthy(GetProp(wire.json, s_error))
         /\ settled.state = "rejected" =>
              /\ settled.value.t = "error"
              /\ settled.value.message \in
                   {String(GetProp(wire.json, s_error)), s_API_Error}
         /\ settled.state = "resolved" =>
              NormalForm(GetProp(wire.json, s_data), settled.value)

C5_Witness ==
    /\ ApiEnvelopeReceived
    /\ settled.state = "resolved"
    /\ GetProp(wire.json, s_success) = JBool(FALSE)
    /\ GetProp(wire.json, s_status) = JStr(s_ok)
    /\ GetProp(wire.json, s_error) = JStr(<<>>)
    /\ posts = 1

\* the collection the active transport returned to getOrders
TransportLines ==
    LET r == IF wire.via = "gas" THEN callGasBackend(wire) ELSE callApi(wire)
    IN r.value.items

GetOrdersResolved == settled.op = "getOrders" /\ settled.state = "resolved"

OrderNumberOf(o) == GetProp(o, s_orderNumber)

\* the removal rule as documented
DocumentedRemoved(o) ==
    \/ o = JNull
    \/ OrderNumberOf(o) \in {JUndef, JNull, JStr(<<>>)}
    \/ toLowerCase(String(OrderNumberOf(o))) = s_ordernumber
    \/ includes(String(OrderNumberOf(o)), s_ID_OrderNumber)

\* the removal rule of the code: falsy lines and falsy or blank order numbers too
BlankRemoved(o) ==
    \/ ~Truthy(o)
    \/ ~Truthy(OrderNumberOf(o))
    \/ trim(String(OrderNumberOf(o))) = <<>>
    \/ toLowerCase(String(OrderNumberOf(o))) = s_ordernumber
    \/ includes(String(OrderNumberOf(o)), s_ID_OrderNumber)

\* C6 as stated: getOrders removes exactly the lines whose orderNumber is empty,
\* equals "ordernumber" case-insensitively or contains "ID, OrderNumber", and
\* returns the others unchanged in their relative order.
C6_FilterRemovesExactlyDocumented ==
    GetOrdersResolved =>
        settled.value.items =
            SelectSeq(TransportLines, LAMBDA o : ~DocumentedRemoved(o))

\* C6 as amended: HybridGasService.getOrders removes exactly the lines that are
\* null, whose orderNumber is missing or falsy (null, empty, 0) or consists of
\* white space only, equals "ordernumber" case-insensitively or contains
\* "ID, OrderNumber", and returns the others unchanged in their relative order.
C6_FilterRemovesBlankToo ==
    GetOrdersResolved =>
        settled.value.items =
            SelectSeq(TransportLines, LAMBDA o : ~BlankRemoved(o))

C6_Witness ==
    /\ GetOrdersResolved
    /\ Len(TransportLines) = 3
    /\ OrderNumberOf(TransportLines[1]) = JStr(<<" ">>)
    /\ OrderNumberOf(TransportLines[2]) = JStr(s_A1)
    /\ OrderNumberOf(TransportLines[3]) = JStr(s_OrderNumber)
    /\ settled.value.items = <<TransportLines[2]>>

----------------------------------------------------------------------------
(* Number arithmetic of the order total                                     *)
(*                                                                          *)
(* JavaScript numbers are IEEE-754 binary64.  A finite non-negative double  *)
(* is [m, e], standing for m * 2^e, with m a natural number of at most 53   *)
(* bits held as little-endian limbs of LimbBits bits (the checker's         *)
(* integers are 32 bits wide).                                              *)

LimbBits == 16
LimbBase == 65536
MantissaBits == 53
GuardBits == 64      \* fraction bits kept by the exact quotient before rounding

RECURSIVE pow2(_)
pow2(k) == IF k = 0 THEN 1 ELSE 2 * pow2(k - 1)

RECURSIVE bigMulSmall(_, _, _)
bigMulSmall(a, m, carry) ==
    IF Len(a) = 0
    THEN IF carry = 0 THEN <<>> ELSE <<carry>>
    ELSE LET x == Head(a) * m + carry
         IN <<x % LimbBase>> \o bigMulSmall(Tail(a), m, x \div LimbBase)

RECURSIVE bigStrip(_)
bigStrip(a) ==
    IF Len(a) > 0 /\ a[Len(a)] = 0 THEN bigStrip(SubSeq(a, 1, Len(a) - 1)) ELSE a

\* quotient and remainder of a by the small divisor m, most significant limb first
RECURSIVE bigDivSmall(_, _, _)
bigDivSmall(a, m, rem) ==
    IF Len(a) = 0 THEN [q |-> <<>>, r |-> rem]
    ELSE LET x == rem * LimbBase + a[Len(a)]
             rest == bigDivSmall(SubSeq(a, 1, Len(a) - 1), m, x % m)
         IN [q |-> Append(rest.q, x \div m), r |-> rest.r]

RECURSIVE bigAdd(_, _, _)
bigAdd(a, b, carry) ==
    IF Len(a) = 0 /\ Len(b) = 0
    THEN IF carry = 0 THEN <<>> ELSE <<carry>>
    ELSE LET x == (IF Len(a) = 0 THEN 0 ELSE Head(a))
                    + (IF Len(b) = 0 THEN 0 ELSE Head(b)) + carry
         IN <<x % LimbBase>>
              \o bigAdd(IF Len(a) = 0 THEN <<>> ELSE Tail(a),
                        IF Len(b) = 0 THEN <<>> ELSE Tail(b), x \div LimbBase)

bigOfInt(n) == bigStrip(<<n % LimbBase, n \div LimbBase>>)

bigToInt(a) ==
    IF Len(a) = 0 THEN 0 ELSE IF Len(a) = 1 THEN a[1] ELSE a[1] + LimbBase * a[2]

RECURSIVE bitLenInt(_)
bitLenInt(n) == IF n = 0 THEN 0 ELSE 1 + bitLenInt(n \div 2)

bigBitLen(a) ==
    IF Len(a) = 0 THEN 0 ELSE LimbBits * (Len(a) - 1) + bitLenInt(a[Len(a)])

\* a * 2^k
bigShiftLeft(a, k) ==
    IF Len(a) = 0 THEN <<>>
    ELSE [i \in 1..(k \div LimbBits) |-> 0] \o bigMulSmall(a, pow2(k % LimbBits), 0)

\* floor(a / 2^k), and whether a bit was dropped
bigShiftRight(a, k) ==
    LET whole == k \div LimbBits
        low == SubSeq(a, 1, IF whole < Len(a) THEN whole ELSE Len(a))
        high == SubSeq(a, whole + 1, Len(a))
        d == bigDivSmall(high, pow2(k % LimbBits), 0)
    IN [q |-> bigStrip(d.q),
        inexact |-> d.r # 0 \/ \E i \in 1..Len(low) : low[i] # 0]

\* round m * 2^e (plus a positive remainder below one unit of m when sticky) to
\* the nearest double, ties to even
roundToDouble(m, e, sticky) ==
    IF bigBitLen(m) <= MantissaBits THEN [m |-> m, e |-> e]
    ELSE LET s == bigBitLen(m) - MantissaBits
             withRoundBit == bigShiftRight(m, s - 1)
             roundBit == IF Len(withRoundBit.q) = 0 THEN 0 ELSE withRoundBit.q[1] % 2
             q == bigShiftRight(withRoundBit.q, 1).q
             odd == Len(q) > 0 /\ q[1] % 2 = 1
             up == roundBit = 1 /\ (sticky \/ withRoundBit.inexact \/ odd)
         IN [m |-> IF up THEN bigAdd(q, <<1>>, 0) ELSE q, e |-> e + s]

\* the double a / b of two small naturals, b > 0
fdiv(a, b) ==
    LET d == bigDivSmall(bigShiftLeft(bigOfInt(a), GuardBits), b, 0)
    IN roundToDouble(bigStrip(d.q), 0 - GuardBits, d.r # 0)

\* the double n * y of a small natural n and a double y
fmulInt(n, y) == roundToDouble(bigMulSmall(y.m, n, 0), y.e, FALSE)

\* Math.round of a non-negative double: floor(x + 0.5)
MathRound(x) ==
    IF x.e >= 0 THEN bigToInt(bigShiftLeft(x.m, x.e))
    ELSE bigToInt(bigShiftRight(
             bigAdd(x.m, bigShiftLeft(<<1>>, (0 - x.e) - 1), 0), 0 - x.e).q)

\* a total computed in exact arithmetic: round(unitPrice * quantity * rate / 100)
totalAmountExact(unitPrice, quantity, discountRate) ==
    (unitPrice * quantity * discountRate + 50) \div 100

\* Math.round(d.unitPrice * d.quantity * (d.discountRate / 100))
totalAmountOf(unitPrice, quantity, discountRate) ==
    MathRound(fmulInt(unitPrice * quantity, fdiv(discountRate, 100)))

----------------------------------------------------------------------------
(* Transport Selector                                                       *)

\* the runtime's window object: nothing of google, google only, google.script
\* without run, or the whole bridge google.script.run
Hosts == {"none", "google", "script", "run"}

Undefined == "undefined"
Url1 == "https://script.example/exec"
EnvUrls == {Undefined, "", Url1}

\* a probe that is satisfied with window.google.script
isGasEnvironmentNoRun == host \in {"script", "run"}

\* a probe answered from what the previous call saw
isGasEnvironmentCached == lastCall.host = "run"

\* window.google && window.google.script && window.google.script.run
isGasEnvironment ==
    /\ host \in {"google", "script", "run"}
    /\ host \in {"script", "run"}
    /\ host = "run"

\* !!this.apiUrl && !this.isGasEnvironment()
isApiEnvironment == apiUrl # "" /\ ~isGasEnvironment

getEnvironmentType ==
    IF isGasEnvironment THEN "gas"
    ELSE IF isApiEnvironment THEN "api"
    ELSE "mock"

\* the head of every HybridGasService operation:
\*   if (this.isGasEnvironment()) return this.callGasBackend(...);
\*   if (this.isApiEnvironment()) return this.callApi(...);
\*   ... local store ...
\* MockGasService has the local store only
dispatch ==
    IF svc = "MockGasService" THEN "mock"
    ELSE IF isGasEnvironment THEN "gas"
    ELSE IF isApiEnvironment THEN "api"
    ELSE "mock"

\* private apiUrl: string = import.meta.env.VITE_GAS_API_URL || ''
constructedApiUrl(url) == IF url \in {Undefined, ""} THEN "" ELSE url

Operations ==
    {"checkAdminPassword", "changeAdminPassword", "getInventory", "addProduct",
     "getCustomers", "addCustomer", "getTechnicians", "addTechnician",
     "removeTechnician", "getOrders", "checkOrderExists", "createOrders",
     "updateOrderStatusByNo", "updateOrderNotesByNo", "updateOrderTargetDateByNo",
     "restoreOrderByNo", "deleteOrderByNo"}

NoArgs == [n |-> <<>>, x |-> "none"]

Call(op, args) ==
    [op |-> op, args |-> args, via |-> dispatch, reported |-> getEnvironmentType,
     host |-> host, envUrl |-> envUrl]

NoCall ==
    [op |-> "none", args |-> NoArgs, via |-> "none", reported |-> "none",
     host |-> "none", envUrl |-> Undefined]

Before(call) == [via |-> call.via, host |-> call.host]

NoItem == [stored |-> FALSE, lines |-> <<>>]
NoResult == [kind |-> "none"]

AdapterIdle ==
    /\ wire = ApiWire("down", JUndef)
    /\ settled = Idle
    /\ again = JUndef
    /\ posts = 0

\* localStorage.getItem(key) === null
NoValue == [stored |-> FALSE, value |-> <<>>]

\* cache keys are sequences of segments, so that a prefix is a sequence too
k_orders == <<"orders">>
k_inventory == <<"inventory">>
k_customers == <<"customers">>
k_technicians == <<"technicians">>
CacheKeys == {k_orders, k_inventory, k_customers, k_technicians}

NoEntry == [set |-> FALSE]

\* the order forms that can be open at once, one per browser tab
Forms == {1, 2}
NoForm == [pc |-> "closed"]

LayerIdle ==
    /\ cache = [k \in CacheKeys |-> NoEntry]
    /\ pending = <<>>
    /\ forms = [f \in Forms |-> NoForm]

OtherItemsIdle ==
    /\ LayerIdle
    /\ cal_admin_pwd = NoValue
    /\ cal_inventory = NoValue
    /\ cal_customers = NoValue
    /\ cal_technicians = NoValue

StoreIdle ==
    /\ svc = "HybridGasService"
    /\ cal_orders = NoItem
    /\ now = 0
    /\ OtherItemsIdle

CallsIdle ==
    /\ lastCall = NoCall
    /\ prevCall = Before(NoCall)
    /\ nCalls = 0
    /\ lastResult = NoResult

EnvIdle ==
    /\ host = "none"
    /\ envUrl = Undefined
    /\ apiUrl = ""

InitAdapter == AdapterInit /\ EnvIdle /\ StoreIdle /\ CallsIdle

SpecAdapter == InitAdapter /\ [][AdapterNext]_vars

\* the module is loaded: the constructor reads the endpoint setting once
EnvInit ==
    /\ host \in Hosts
    /\ envUrl \in EnvUrls
    /\ apiUrl = constructedApiUrl(envUrl)
    /\ AdapterIdle
    /\ StoreIdle
    /\ CallsIdle

\* the runtime gains or loses (part of) the host bridge
SetHost ==
    /\ \E h \in Hosts : host' = h
    /\ UNCHANGED <<envUrl, apiUrl, callVars, storeVars, otherItems, layerVars, formVars, adapterVars>>

\* the endpoint setting of the environment is swapped
SetEnvUrl ==
    /\ \E u \in EnvUrls : envUrl' = u
    /\ UNCHANGED <<host, apiUrl, callVars, storeVars, otherItems, layerVars, formVars, adapterVars>>

\* any operation is called and picks its transport
Invoke ==
    /\ \E op \in Operations : lastCall' = Call(op, NoArgs)
    /\ prevCall' = Before(lastCall)
    /\ UNCHANGED <<nCalls, lastResult, envVars, storeVars, otherItems, layerVars, formVars, adapterVars>>

EnvNext == SetHost \/ SetEnvUrl \/ Invoke

SpecEnv == EnvInit /\ [][EnvNext]_vars

\* the transport the environment of a call determines, from the bridge and an
\* endpoint setting
Determined(h, url) ==
    IF h = "run" THEN "gas"
    ELSE IF url \notin {Undefined, ""} THEN "api"
    ELSE "mock"

\* C1: getEnvironmentType is 'gas' whenever the bridge window.google.script.run
\* is present, whatever the endpoint; 'api' exactly when the bridge is absent and
\* the configured endpoint is non-empty; 'mock' exactly when neither holds; and
\* every operation is dispatched to the transport getEnvironmentType reports.
C1_TransportResolution ==
    /\ host = "run" => getEnvironmentType = "gas"
    /\ getEnvironmentType = "api" <=> (host # "run" /\ apiUrl # "")
    /\ getEnvironmentType = "mock" <=> (host # "run" /\ apiUrl = "")
    /\ lastCall.op # "none" =>
         /\ lastCall.via = lastCall.reported
         /\ lastCall.via \in {"gas", "api", "mock"}

C1_Witness ==
    /\ lastCall.op = "getOrders" /\ lastCall.via = "gas" /\ apiUrl = Url1
    /\ prevCall.via = "api" /\ prevCall.host = "script"

\* C2 as stated: a call uses the transport determined by the bridge and the
\* configured endpoint of the environment as they are at the time of the call.
C2_UsesEnvironmentAtCallTime ==
    lastCall.op # "none" =>
        lastCall.via = Determined(lastCall.host, lastCall.envUrl)

\* C2 as amended: every call decides its transport afresh from the bridge as it
\* is at the time of the call and from the endpoint the service read when it was
\* constructed: a change of the bridge between two calls is seen by the later
\* call, a later change of the endpoint setting is not.
C2_UsesBridgeAtCallTime ==
    [][/\ apiUrl' = apiUrl
       /\ lastCall' # lastCall => lastCall'.via = Determined(host, apiUrl)]_vars

C2_Witness ==
    /\ prevCall.via = "mock" /\ prevCall.host = "none"
    /\ lastCall.via = "gas" /\ lastCall.host = "run"

----------------------------------------------------------------------------
(* Order lines and the local persisted store                                *)

PENDING == "Pending"
CALIBRATING == "Calibrating"
COMPLETED == "Completed"
CalibrationStatus == {PENDING, CALIBRATING, COMPLETED}

s_CAL_2023_001 == <<"C","A","L","-","2","0","2","3","-","0","0","1">>
s_CAL_2024_002 == <<"C","A","L","-","2","0","2","4","-","0","0","2">>
s_CAL_2024_003 == <<"C","A","L","-","2","0","2","4","-","0","0","3">>

\* a literal date string of the source, the ISO string of a clock reading, and
\* the ISO string new Date(text).toISOString() of a date text
DateLit(text) == [lit |-> text]
IsoOfClock(ms) == [ms |-> ms]
IsoOfText(text) == [iso |-> text]

\* date texts a caller may pass; isNaN(new Date(text).getTime()) for the others
DateTexts == {"2024-03-01", "soon"}
ValidDate(text) == text \in {"2024-03-01"}

\* free text is a sequence of pieces; the empty sequence is ''
Text(piece) == JStr(<<piece>>)

Order(id, orderNumber, equipmentNumber, quantity, unitPrice, discountRate, totalAmount, status, createDate, targetDate, isArchived, notes) ==
    [id |-> id, orderNumber |-> orderNumber, equipmentNumber |-> equipmentNumber,
     quantity |-> quantity, unitPrice |-> unitPrice, discountRate |-> discountRate,
     totalAmount |-> totalAmount, status |-> status, createDate |-> createDate,
     targetDate |-> targetDate, isArchived |-> isArchived, notes |-> notes,
     resurrectReason |-> JUndef]

\* INITIAL_ORDERS of HybridGasService
INITIAL_ORDERS_Hybrid == <<>>

\* INITIAL_ORDERS of MockGasService
\* (the notes text of the first two lines is written here in ASCII)
INITIAL_ORDERS_Mock ==
    <<Order([lit |-> "ord-001-1"], s_CAL_2023_001, s_EQ(<<"0","0","1">>), 1, 1200, 100, 1200,
            COMPLETED, DateLit("2023-12-01T10:00:00Z"),
            DateLit("2023-12-05T10:00:00Z"), TRUE, Text("annual")),
      Order([lit |-> "ord-001-2"], s_CAL_2023_001, s_EQ(<<"0","0","1">>), 1, 1500, 100, 1500,
            COMPLETED, DateLit("2023-12-01T10:00:00Z"),
            DateLit("2023-12-05T10:00:00Z"), TRUE, Text("annual")),
      Order([lit |-> "ord-002"], s_CAL_2024_002, s_EQ(<<"0","9","9">>), 1, 2200, 90, 1980,
            CALIBRATING, DateLit("2024-01-15T09:30:00Z"),
            DateLit("2024-01-20T09:30:00Z"), FALSE, JUndef),
      Order([lit |-> "ord-003"], s_CAL_2024_003, s_EQ(<<"1","0","5">>), 3, 3500, 95, 9975,
            PENDING, DateLit("2024-02-10T14:00:00Z"),
            DateLit("2024-02-17T14:00:00Z"), FALSE, JUndef)>>

Item(lines) == [stored |-> TRUE, lines |-> lines]

\* orders.filter(...) of HybridGasService.getOrders on typed order lines
filterLines(lines) ==
    SelectSeq(lines, LAMBDA o : orderNumberOk(JStr(o.orderNumber)))

\* getOrders on the local store: the lines it resolves with and the item it
\* leaves.  HybridGasService falls back to INITIAL_ORDERS without storing it and
\* filters; MockGasService stores INITIAL_ORDERS on first access and does not filter
getOrdersLocal(item) ==
    IF svc = "HybridGasService"
    THEN [lines |-> filterLines(IF item.stored THEN item.lines
                                ELSE INITIAL_ORDERS_Hybrid),
          item |-> item]
    ELSE IF ~item.stored
         THEN [lines |-> INITIAL_ORDERS_Mock, item |-> Item(INITIAL_ORDERS_Mock)]
         ELSE [lines |-> item.lines, item |-> item]

\* orders.some(o => o.orderNumber === orderNumber)
someMatching(lines, orderNumber) ==
    \E i \in 1..Len(lines) : lines[i].orderNumber = orderNumber

\* an update that stops at the first matching line
mapFirstMatching(lines, orderNumber, changed) ==
    [i \in 1..Len(lines) |->
        IF /\ lines[i].orderNumber = orderNumber
           /\ \A j \in 1..(i - 1) : lines[j].orderNumber # orderNumber
        THEN changed[i] ELSE lines[i]]

\* orders.forEach(o => { if (o.orderNumber === orderNumber) ... }), where
\* changed[i] is line i after the body of the if
mapMatching(lines, orderNumber, changed) ==
    [i \in 1..Len(lines) |->
        IF lines[i].orderNumber = orderNumber THEN changed[i] ELSE lines[i]]

\* o.status = newStatus; if (newStatus === COMPLETED) o.isArchived = true
applyStatus(o, newStatus) ==
    [o EXCEPT !.status = newStatus,
              !.isArchived = IF newStatus = COMPLETED THEN TRUE ELSE @]

\* o.notes = notes
applyNotes(o, notes) == [o EXCEPT !.notes = notes]

\* a date update that lands in createDate
applyTargetDateToCreateDate(o, newDate) == [o EXCEPT !.createDate = IsoOfText(newDate)]

\* o.targetDate = new Date(newDate).toISOString()
applyTargetDate(o, newDate) == [o EXCEPT !.targetDate = IsoOfText(newDate)]

\* a restore that leaves the status as it is
applyRestoreKeepStatus(o, reason) ==
    [o EXCEPT !.isArchived = FALSE, !.resurrectReason = JStr(<<reason>>)]

\* o.isArchived = false; o.status = PENDING; o.resurrectReason = reason; and in
\* MockGasService o.notes = o.notes ? `${o.notes} (...: ${reason})` : `(...: ${reason})`
\* (the label inside the parentheses is written here in ASCII)
applyRestore(o, reason) ==
    [o EXCEPT !.isArchived = FALSE,
              !.status = PENDING,
              !.resurrectReason = JStr(<<reason>>),
              !.notes = IF svc = "HybridGasService" THEN @
                        ELSE IF Truthy(@)
                             THEN JStr(@.s \o <<" (restored: ", reason, ")">>)
                             ELSE JStr(<<"(restored: ", reason, ")">>)]

\* what a by-number update leaves in the store: HybridGasService always writes
\* the lines it read; MockGasService writes only if (updated)
writeBack(read, lines, orderNumber) ==
    IF svc = "HybridGasService" \/ someMatching(read.lines, orderNumber)
    THEN Item(lines)
    ELSE read.item

\* a status update that stops at the first matching line
updateOrderStatusByNoFirstOnly(item, orderNumber, newStatus) ==
    LET read == getOrdersLocal(item)
    IN writeBack(read,
                 mapFirstMatching(read.lines, orderNumber,
                                  [i \in 1..Len(read.lines) |-> applyStatus(read.lines[i], newStatus)]),
                 orderNumber)

updateOrderStatusByNo(item, orderNumber, newStatus) ==
    LET read == getOrdersLocal(item)
    IN writeBack(read,
                 mapMatching(read.lines, orderNumber,
                             [i \in 1..Len(read.lines) |-> applyStatus(read.lines[i], newStatus)]),
                 orderNumber)

updateOrderNotesByNo(item, orderNumber, notes) ==
    LET read == getOrdersLocal(item)
    IN writeBack(read,
                 mapMatching(read.lines, orderNumber,
                             [i \in 1..Len(read.lines) |-> applyNotes(read.lines[i], notes)]),
                 orderNumber)

\* HybridGasService: toISOString throws a RangeError at the first matching line
\* when the date is invalid
targetDateThrows(item, orderNumber, newDate) ==
    /\ svc = "HybridGasService"
    /\ ~ValidDate(newDate)
    /\ someMatching(getOrdersLocal(item).lines, orderNumber)

\* MockGasService: nothing is updated when the date is invalid
updateOrderTargetDateByNo(item, orderNumber, newDate) ==
    LET read == getOrdersLocal(item)
    IN IF targetDateThrows(item, orderNumber, newDate) THEN item
       ELSE IF svc = "MockGasService" /\ ~ValidDate(newDate) THEN read.item
       ELSE writeBack(read,
                      mapMatching(read.lines, orderNumber,
                                  [i \in 1..Len(read.lines) |-> applyTargetDate(read.lines[i], newDate)]),
                      orderNumber)

restoreOrderByNo(item, orderNumber, reason) ==
    LET read == getOrdersLocal(item)
    IN writeBack(read,
                 mapMatching(read.lines, orderNumber,
                             [i \in 1..Len(read.lines) |-> applyRestore(read.lines[i], reason)]),
                 orderNumber)

\* orders.filter(o => o.orderNumber !== orderNumber), always written
deleteOrderByNo(item, orderNumber) ==
    Item(SelectSeq(getOrdersLocal(item).lines,
                   LAMBDA o : o.orderNumber # orderNumber))

\* a new line that is left without the order number of the call
newOrderWithoutNumber(d, id, manualOrderNumber, createDate) ==
    [Order(id, <<>>, d.equipmentNumber, d.quantity, d.unitPrice,
           d.discountRate,
           totalAmountOf(d.unitPrice, d.quantity, d.discountRate),
           d.status, createDate, d.targetDate, FALSE, d.notes)
       EXCEPT !.resurrectReason = d.resurrectReason]

\* one new line: { ...d, id, orderNumber, totalAmount, createDate, isArchived }
newOrder(d, id, manualOrderNumber, createDate) ==
    [Order(id, manualOrderNumber, d.equipmentNumber, d.quantity, d.unitPrice,
           d.discountRate,
           totalAmountOf(d.unitPrice, d.quantity, d.discountRate),
           d.status, createDate, d.targetDate, FALSE, d.notes)
       EXCEPT !.resurrectReason = d.resurrectReason]

\* HybridGasService: id = Date.now().toString() + Math.random() and
\* createDate = new Date().toISOString() are evaluated for each line;
\* MockGasService: id = Math.random()..., one createDate for the call
newOrders(ordersData, manualOrderNumber, times, rnds) ==
    [i \in 1..Len(ordersData) |->
        IF svc = "HybridGasService"
        THEN newOrder(ordersData[i], [now |-> times[i], rnd |-> rnds[i]],
                      manualOrderNumber, IsoOfClock(times[i]))
        ELSE newOrder(ordersData[i], [rnd |-> rnds[i]],
                      manualOrderNumber, IsoOfClock(times[1]))]

\* localStorage.setItem('cal_orders', JSON.stringify([...newOrders, ...existing]))
createOrders(item, ordersData, manualOrderNumber, times, rnds) ==
    Item(newOrders(ordersData, manualOrderNumber, times, rnds)
           \o getOrdersLocal(item).lines)

----------------------------------------------------------------------------
(* The order operations of the exported service object                      *)

MaxCalls == 2

\* one element of the orderPayloads array built by OrderForm.handleSubmit, with
\* the totalAmount a caller of createOrders(ordersData: any[]) may also pass
OrderData(equipmentNumber, quantity, unitPrice, discountRate, totalAmount) ==
    [equipmentNumber |-> equipmentNumber, quantity |-> quantity,
     unitPrice |-> unitPrice, discountRate |-> discountRate,
     totalAmount |-> totalAmount, status |-> PENDING,
     targetDate |-> IsoOfText("2024-03-01"), notes |-> JUndef,
     resurrectReason |-> JUndef]

SamplePayloads ==
    {<<OrderData(s_EQ(<<"7">>), 2, 1000, 90, JUndef)>>,
     <<OrderData(s_EQ(<<"7">>), 1, 45, 70, JNum(7)),
       OrderData(s_EQ(<<"7">>), 2, 1000, 90, JUndef)>>}

ArgOrderNumbers == {s_CAL_2023_001, s_A1}

\* createOrders takes any string as manualOrderNumber: also '' and the header
\* token of the order sheet
ManualOrderNumbers == ArgOrderNumbers \cup {<<>>, s_orderNumber}
ArgNotes == {"urgent"}
ArgReasons == {"mistake"}

\* Date.now() read once per line, after await delay(800): the clock is past
\* every reading of an earlier call, does not go back, and may tick between
\* two lines
ClockReadings(n) ==
    {t \in [1..n -> (now + 1)..(now + n)] :
        /\ t[1] = now + 1
        /\ \A i \in 2..n : t[i] \in {t[i - 1], t[i - 1] + 1}}

\* HybridGasService reads the clock for every line, MockGasService once
Readings(n) == IF svc = "HybridGasService" THEN n ELSE 1

\* Math.random(): n draws, the first of which is called r1
SampleRandoms == {"r1", "r2"}
Randoms(n) == {r \in [1..n -> SampleRandoms] : r[1] = "r1"}

Remote == [kind |-> "remote"]
Void == [kind |-> "void"]
RangeError == "RangeError"

\* the caller awaits one method of the service; the transport is chosen inside
Called(op, args) ==
    /\ nCalls < MaxCalls
    /\ nCalls' = nCalls + 1
    /\ lastCall' = Call(op, args)
    /\ prevCall' = Before(lastCall)
    /\ UNCHANGED <<svc, envVars, adapterVars, layerVars, formVars>>

\* the hosted and HTTP backends keep their own store; the local branch runs
\* against localStorage
Settle(item, result) ==
    IF dispatch = "mock"
    THEN cal_orders' = item /\ lastResult' = result
    ELSE cal_orders' = cal_orders /\ lastResult' = Remote

GetOrders ==
    /\ Called("getOrders", NoArgs)
    /\ Settle(getOrdersLocal(cal_orders).item,
              [kind |-> "orders", lines |-> getOrdersLocal(cal_orders).lines])
    /\ UNCHANGED <<now, otherItems>>

CheckOrderExists ==
    \E n \in ArgOrderNumbers :
        /\ Called("checkOrderExists", [n |-> n, x |-> "none"])
        /\ Settle(getOrdersLocal(cal_orders).item,
                  [kind |-> "boolean",
                   value |-> someMatching(getOrdersLocal(cal_orders).lines, n)])
        /\ UNCHANGED <<now, otherItems>>

CreateOrders ==
    \E ordersData \in SamplePayloads, n \in ManualOrderNumbers :
        \E times \in ClockReadings(Readings(Len(ordersData))),
           rnds \in Randoms(Len(ordersData)) :
            /\ Called("createOrders", [n |-> n, x |-> "none", data |-> ordersData])
            /\ Settle(createOrders(cal_orders, ordersData, n, times, rnds), Void)
            /\ now' = IF dispatch = "mock" THEN times[Len(times)] ELSE now
            /\ UNCHANGED otherItems

UpdateOrderStatusByNo ==
    \E n \in ArgOrderNumbers, newStatus \in CalibrationStatus :
        /\ Called("updateOrderStatusByNo", [n |-> n, x |-> newStatus])
        /\ Settle(updateOrderStatusByNo(cal_orders, n, newStatus), Void)
        /\ UNCHANGED <<now, otherItems>>

UpdateOrderNotesByNo ==
    \E n \in ArgOrderNumbers, notes \in ArgNotes :
        /\ Called("updateOrderNotesByNo", [n |-> n, x |-> notes])
        /\ Settle(updateOrderNotesByNo(cal_orders, n, Text(notes)), Void)
        /\ UNCHANGED <<now, otherItems>>

UpdateOrderTargetDateByNo ==
    \E n \in ArgOrderNumbers, newDate \in DateTexts :
        /\ Called("updateOrderTargetDateByNo", [n |-> n, x |-> newDate])
        /\ Settle(updateOrderTargetDateByNo(cal_orders, n, newDate),
                  IF targetDateThrows(cal_orders, n, newDate)
                  THEN [kind |-> "rejected", error |-> RangeError]
                  ELSE Void)
        /\ UNCHANGED <<now, otherItems>>

RestoreOrderByNo ==
    \E n \in ArgOrderNumbers, reason \in ArgReasons :
        /\ Called("restoreOrderByNo", [n |-> n, x |-> reason])
        /\ Settle(restoreOrderByNo(cal_orders, n, reason), Void)
        /\ UNCHANGED <<now, otherItems>>

DeleteOrderByNo ==
    \E n \in ArgOrderNumbers :
        /\ Called("deleteOrderByNo", [n |-> n, x |-> "none"])
        /\ Settle(deleteOrderByNo(cal_orders, n), Void)
        /\ UNCHANGED <<now, otherItems>>

\* the module is loaded: one of the two revisions of the service is the exported
\* object, in a runtime whose bridge and endpoint setting are given
Init ==
    /\ svc \in {"HybridGasService", "MockGasService"}
    /\ host \in IF svc = "HybridGasService" THEN {"none", "run"} ELSE {"none"}
    /\ envUrl \in IF svc = "HybridGasService" THEN {Undefined, Url1}
                 ELSE {Undefined}
    /\ apiUrl = constructedApiUrl(envUrl)
    /\ cal_orders = NoItem
    /\ now = 0
    /\ OtherItemsIdle
    /\ AdapterIdle
    /\ CallsIdle

Next ==
    \/ GetOrders
    \/ CheckOrderExists
    \/ CreateOrders
    \/ UpdateOrderStatusByNo
    \/ UpdateOrderNotesByNo
    \/ UpdateOrderTargetDateByNo
    \/ RestoreOrderByNo
    \/ DeleteOrderByNo

Spec == Init /\ [][Next]_vars

----------------------------------------------------------------------------
(* Properties of the order operations                                       *)

\* the lines held in localStorage under 'cal_orders'
Persisted == cal_orders.lines

\* the step is one call of op settled against the local store
LocalCallStep(op) ==
    /\ nCalls' = nCalls + 1
    /\ lastCall'.op = op
    /\ lastCall'.via = "mock"

\* what getOrders would resolve with before and after the step
ViewBefore == getOrdersLocal(cal_orders).lines
ViewAfter == getOrdersLocal(cal_orders').lines

Reasons(lines) == [i \in 1..Len(lines) |-> lines[i].resurrectReason]

\* C7: every persisted order line has totalAmount equal to
\* round(unitPrice x quantity x discountRate / 100) of its own fields, after any
\* sequence of operations
C7_TotalAmountIsRoundedProduct ==
    \A i \in 1..Len(Persisted) :
        Persisted[i].totalAmount =
            totalAmountExact(Persisted[i].unitPrice, Persisted[i].quantity,
                             Persisted[i].discountRate)

\* C8: every persisted order line has isArchived = true if and only if its
\* status is Completed, after any sequence of operations
C8_ArchivedIffCompleted ==
    \A i \in 1..Len(Persisted) :
        Persisted[i].isArchived <=> (Persisted[i].status = COMPLETED)

C9_StatusUpdateStep ==
    LocalCallStep("updateOrderStatusByNo") =>
        \A before \in {ViewBefore}, after \in {ViewAfter},
           n \in {lastCall'.args.n}, s \in {lastCall'.args.x} :
           /\ Len(after) = Len(before)
           /\ \A i \in 1..Len(after) :
               /\ after[i].orderNumber = before[i].orderNumber
               /\ IF after[i].orderNumber = n
                  THEN /\ after[i].status = s
                       /\ s = COMPLETED => after[i].isArchived
                  ELSE after[i].status = before[i].status

\* C9: after updateOrderStatusByNo(n, s) on the local store, every line of the
\* next getOrders result whose orderNumber is n has status s (and isArchived
\* true when s is Completed), and the status of every other line is as before
C9_StatusUpdateMutatesWholeOrder == [][C9_StatusUpdateStep]_vars

\* a two-line order was moved to Calibrating while another order stayed Pending
C9_Witness ==
    /\ lastCall.op = "updateOrderStatusByNo"
    /\ lastCall.via = "mock"
    /\ lastCall.args = [n |-> s_CAL_2023_001, x |-> CALIBRATING]
    /\ \E i, j \in 1..Len(Persisted) :
        /\ i # j
        /\ Persisted[i].orderNumber = s_CAL_2023_001
        /\ Persisted[j].orderNumber = s_CAL_2023_001
        /\ Persisted[i].status = CALIBRATING
        /\ Persisted[j].status = CALIBRATING
    /\ \E k \in 1..Len(Persisted) :
        /\ Persisted[k].orderNumber # s_CAL_2023_001
        /\ Persisted[k].status = PENDING

C10_RestoreStep(before, after, n, reason) ==
    /\ Len(after) = Len(before)
    /\ \A i \in 1..Len(after) :
        /\ after[i].orderNumber = before[i].orderNumber
        /\ IF after[i].orderNumber = n
           THEN /\ after[i].isArchived = FALSE
                /\ after[i].status = PENDING
                /\ after[i].resurrectReason = JStr(<<reason>>)
           ELSE after[i].resurrectReason = before[i].resurrectReason

\* the lines a create adds to the view (none when getOrders filters them out)
\* have no reason; the lines behind them keep theirs
C10_CreateStep(before, after, created) ==
    \E shown \in {0, created} :
        /\ Len(after) = shown + Len(before)
        /\ \A i \in 1..Len(after) :
            after[i].resurrectReason =
                IF i <= shown THEN JUndef
                ELSE before[i - shown].resurrectReason

C10_Step ==
    (nCalls' = nCalls + 1 /\ lastCall'.via = "mock") =>
        \A before \in {ViewBefore}, after \in {ViewAfter} :
            CASE lastCall'.op = "restoreOrderByNo" ->
                     C10_RestoreStep(before, after,
                                     lastCall'.args.n, lastCall'.args.x)
              [] lastCall'.op = "createOrders" ->
                     C10_CreateStep(before, after, Len(lastCall'.args.data))
              [] lastCall'.op = "deleteOrderByNo" ->
                     Reasons(after) =
                         Reasons(SelectSeq(before,
                             LAMBDA o : o.orderNumber # lastCall'.args.n))
              [] OTHER -> Reasons(after) = Reasons(before)

\* C10: restoreOrderByNo(n, reason) on the local store leaves every line whose
\* orderNumber is n with isArchived false, status Pending and resurrectReason
\* reason, whatever its status was, and no other operation changes the
\* resurrectReason of any line
C10_RestoreSetsReason == [][C10_Step]_vars

\* the first call restored the two Completed, archived lines of the seed order
C10_Witness ==
    /\ svc = "MockGasService"
    /\ nCalls = 1
    /\ lastCall.op = "restoreOrderByNo"
    /\ lastCall.args = [n |-> s_CAL_2023_001, x |-> "mistake"]
    /\ INITIAL_ORDERS_Mock[1].status = COMPLETED
    /\ INITIAL_ORDERS_Mock[1].isArchived
    /\ \E i, j \in 1..Len(Persisted) :
        /\ i # j
        /\ \A k \in {i, j} :
            /\ Persisted[k].orderNumber = s_CAL_2023_001
            /\ Persisted[k].isArchived = FALSE
            /\ Persisted[k].status = PENDING
            /\ Persisted[k].resurrectReason = JStr(<<"mistake">>)

----------------------------------------------------------------------------
(* The admin password                                                       *)

s_0000 == <<"0","0","0","0">>
s_1234 == <<"1","2","3","4">>

Value(v) == [stored |-> TRUE, value |-> v]

\* stored || '0000': null and the empty string are falsy
currentPwd(item) ==
    IF item.stored /\ item.value # <<>> THEN item.value ELSE s_0000

\* HybridGasService compares (input || '').trim(), MockGasService the input
cleanInput(input) == IF svc = "HybridGasService" THEN trim(input) ELSE input

\* checkAdminPassword on the local store
checkAdminPassword(item, input) == cleanInput(input) = currentPwd(item)

\* changeAdminPassword storing the new password whatever the check says
changeAdminPasswordUnchecked(item, oldPwd, newPwd) ==
    [value |-> checkAdminPassword(item, oldPwd), item |-> Value(newPwd)]

\* changeAdminPassword on the local store: the value returned and the entry left
changeAdminPassword(item, oldPwd, newPwd) ==
    IF checkAdminPassword(item, oldPwd)
    THEN [value |-> TRUE, item |-> Value(newPwd)]
    ELSE [value |-> FALSE, item |-> item]

\* passwords a caller may pass: plain, empty, and padded with a space
SamplePasswords == {s_0000, s_1234, <<>>, <<" ">> \o s_1234}

Boolean(b) == [kind |-> "boolean", value |-> b]

\* a call of an admin operation; the order lines and the clock are not touched
CalledAdmin(op, args) ==
    /\ Called(op, args)
    /\ UNCHANGED <<cal_orders, now, cal_inventory, cal_customers, cal_technicians>>

CheckAdminPassword ==
    \E input \in SamplePasswords :
        /\ CalledAdmin("checkAdminPassword", [input |-> input])
        /\ lastResult' = IF dispatch = "mock"
                         THEN Boolean(checkAdminPassword(cal_admin_pwd, input))
                         ELSE Remote
        /\ UNCHANGED cal_admin_pwd

ChangeAdminPassword ==
    \E oldPwd \in SamplePasswords, newPwd \in SamplePasswords :
        /\ CalledAdmin("changeAdminPassword", [oldPwd |-> oldPwd, newPwd |-> newPwd])
        /\ IF dispatch = "mock"
           THEN /\ lastResult' =
                       Boolean(changeAdminPassword(cal_admin_pwd, oldPwd, newPwd).value)
                /\ cal_admin_pwd' =
                       changeAdminPassword(cal_admin_pwd, oldPwd, newPwd).item
           ELSE /\ lastResult' = Remote
                /\ UNCHANGED cal_admin_pwd

AdminNext ==
    \/ CheckAdminPassword
    \/ ChangeAdminPassword

SpecAdmin == Init /\ [][AdminNext]_vars

\* the latest call was changeAdminPassword on the local store and returned true
ChangedPassword ==
    /\ lastCall.op = "changeAdminPassword"
    /\ lastCall.via = "mock"
    /\ lastResult = Boolean(TRUE)

\* C11: with no password ever set checkAdminPassword("0000") returns true, and
\* once changeAdminPassword(old, new) has returned true, checkAdminPassword(new)
\* returns true and, when old differs from new, checkAdminPassword(old) returns
\* false
C11_PasswordReplaced ==
    /\ (dispatch = "mock" /\ ~cal_admin_pwd.stored) =>
           checkAdminPassword(cal_admin_pwd, s_0000)
    /\ ChangedPassword =>
        /\ checkAdminPassword(cal_admin_pwd, lastCall.args.newPwd)
        /\ lastCall.args.oldPwd # lastCall.args.newPwd =>
               ~checkAdminPassword(cal_admin_pwd, lastCall.args.oldPwd)

----------------------------------------------------------------------------
(* Inventory, customers and technicians over the local persisted store      *)

\* the fallback datasets (names, specifications and categories are written
\* here as ASCII tokens)
Customer(id, name) == [id |-> id, name |-> name]
Technician(id, name) == [id |-> id, name |-> name]
Product(id, name, standardPrice, lastUpdated) ==
    [id |-> id, name |-> name, standardPrice |-> standardPrice,
     lastUpdated |-> lastUpdated]

INITIAL_CUSTOMERS ==
    IF svc = "HybridGasService"
    THEN <<Customer([lit |-> "c1"], s_customer("0"))>>
    ELSE <<Customer([lit |-> "c1"], s_customer("1")),
           Customer([lit |-> "c2"], s_customer("2")),
           Customer([lit |-> "c3"], s_customer("3")),
           Customer([lit |-> "c4"], s_customer("4"))>>

INITIAL_TECHNICIANS ==
    IF svc = "HybridGasService"
    THEN <<Technician([lit |-> "t1"], "test technician")>>
    ELSE <<Technician([lit |-> "t1"], "technician 1"),
           Technician([lit |-> "t2"], "technician 2"),
           Technician([lit |-> "t3"], "technician 3"),
           Technician([lit |-> "t4"], "technician 4"),
           Technician([lit |-> "t5"], "technician 5")>>

INITIAL_INVENTORY ==
    IF svc = "HybridGasService"
    THEN <<Product([lit |-> "1"], "test item", 0, IsoOfClock(0))>>
    ELSE <<Product([lit |-> "1"], "item 1", 1200, DateLit("2023-10-01")),
           Product([lit |-> "2"], "item 2", 1500, DateLit("2023-10-05")),
           Product([lit |-> "3"], "item 3", 2200, DateLit("2023-09-15")),
           Product([lit |-> "4"], "item 4", 3500, DateLit("2023-11-20")),
           Product([lit |-> "5"], "item 5", 1800, DateLit("2023-10-10")),
           Product([lit |-> "6"], "item 6", 2800, DateLit("2023-12-01"))>>

\* a read that never stores the fallback dataset
readFallbackOnly(item, initial) ==
    [value |-> IF item.stored THEN item.value ELSE initial, item |-> item]

\* const stored = localStorage.getItem(key): HybridGasService returns
\* stored ? JSON.parse(stored) : INITIAL; MockGasService stores INITIAL first
\* when (!stored)
readItem(item, initial) ==
    IF svc = "HybridGasService"
    THEN [value |-> IF item.stored THEN item.value ELSE initial, item |-> item]
    ELSE IF ~item.stored
         THEN [value |-> initial, item |-> Value(initial)]
         ELSE [value |-> item.value, item |-> item]

getInventory(item) == readItem(item, INITIAL_INVENTORY)
getCustomers(item) == readItem(item, INITIAL_CUSTOMERS)
getTechnicians(item) == readItem(item, INITIAL_TECHNICIANS)

\* an add that returns the new record without storing the collection
pushAndStoreNothing(read, record) == [value |-> record, item |-> read.item]

\* list.push(record); localStorage.setItem(key, JSON.stringify(list)); return record
pushAndStore(read, record) ==
    [value |-> record, item |-> Value(Append(read.value, record))]

\* { ...product, id: Date.now().toString(), lastUpdated: new Date().toISOString() }
\* (MockGasService: id: Math.random().toString(36).substr(2, 9))
addProduct(item, product, t, rnd) ==
    pushAndStore(getInventory(item),
                 Product(IF svc = "HybridGasService" THEN [now |-> t]
                         ELSE [rnd |-> rnd],
                         product.name, product.standardPrice, IsoOfClock(t)))

\* { id: 'c-' + Date.now(), name } (MockGasService: 'c-' + Math.random()...)
addCustomer(item, name, t, rnd) ==
    pushAndStore(getCustomers(item),
                 Customer(IF svc = "HybridGasService" THEN [c |-> "c-", now |-> t]
                          ELSE [c |-> "c-", rnd |-> rnd], name))

\* { id: 't-' + Date.now(), name } (MockGasService: 't-' + Math.random()...)
addTechnician(item, name, t, rnd) ==
    pushAndStore(getTechnicians(item),
                 Technician(IF svc = "HybridGasService" THEN [c |-> "t-", now |-> t]
                            ELSE [c |-> "t-", rnd |-> rnd], name))

\* localStorage.setItem('cal_technicians', JSON.stringify(techs.filter(t => t.id !== id)))
removeTechnician(item, id) ==
    Value(SelectSeq(getTechnicians(item).value, LAMBDA t : t.id # id))

----------------------------------------------------------------------------
(* The cache layer and the optimistic order writes                          *)

\* the fixed time-to-live, in clock readings
TTL == 2

MaxNow == 3
MaxPending == 1

Entry(value, t) == [set |-> TRUE, value |-> value, storedAt |-> t]

\* an entry that expires as soon as its age reaches the time-to-live
expiredEarly(entry, t) == t - entry.storedAt >= TTL

\* now - storedAt > TTL
expired(entry, t) == t - entry.storedAt > TTL

\* get(key): absent if never set or expired; an expired entry is evicted
cacheGet(c, key, t) ==
    IF c[key].set /\ ~expired(c[key], t)
    THEN [hit |-> TRUE, value |-> c[key].value, cache |-> c]
    ELSE [hit |-> FALSE, value |-> <<>>, cache |-> [c EXCEPT ![key] = NoEntry]]

\* set(key, value): stores the value with the current timestamp
cacheSet(c, key, value, t) == [c EXCEPT ![key] = Entry(value, t)]

startsWith(key, prefix) ==
    /\ Len(prefix) <= Len(key)
    /\ SubSeq(key, 1, Len(prefix)) = prefix

\* invalidate(prefix): removes every entry whose key starts with the prefix
cacheInvalidate(c, prefix) ==
    [k \in DOMAIN c |-> IF startsWith(k, prefix) THEN NoEntry ELSE c[k]]

\* a read that answers from the cache even when a refresh is forced
readThroughIgnoringForce(c, key, force, t, fetched) ==
    IF cacheGet(c, key, t).hit
    THEN [from |-> "cache", value |-> cacheGet(c, key, t).value,
          cache |-> cacheGet(c, key, t).cache]
    ELSE [from |-> "transport", value |-> fetched,
          cache |-> cacheSet(c, key, fetched, t)]

\* every get operation: check the cache unless force is set; on a miss take
\* what the transport returns, populate the cache and return it
readThrough(c, key, force, t, fetched) ==
    IF ~force /\ cacheGet(c, key, t).hit
    THEN [from |-> "cache", value |-> cacheGet(c, key, t).value,
          cache |-> cacheGet(c, key, t).cache]
    ELSE [from |-> "transport", value |-> fetched,
          cache |-> cacheSet(c, key, fetched, t)]

\* step 1 of an optimistic write: the cached order lines, or none on a miss
cachedOrders(c, t) ==
    IF cacheGet(c, k_orders, t).hit THEN cacheGet(c, k_orders, t).value ELSE <<>>

\* the synthetic lines of an optimistic create, each with a temporary id
syntheticOrders(ordersData, manualOrderNumber, t) ==
    [i \in 1..Len(ordersData) |->
        newOrder(ordersData[i], [tmp |-> i, at |-> t], manualOrderNumber,
                 IsoOfClock(t))]

\* step 2: the collection a later read from the transport would reflect
projected(lines, call, t) ==
    CASE call.op = "createOrders" ->
             syntheticOrders(call.args.data, call.args.n, t) \o lines
      [] call.op = "updateOrderStatusByNo" ->
             mapMatching(lines, call.args.n,
                 [i \in 1..Len(lines) |-> applyStatus(lines[i], call.args.x)])
      [] call.op = "updateOrderNotesByNo" ->
             mapMatching(lines, call.args.n,
                 [i \in 1..Len(lines) |-> applyNotes(lines[i], Text(call.args.x))])
      [] call.op = "updateOrderTargetDateByNo" ->
             mapMatching(lines, call.args.n,
                 [i \in 1..Len(lines) |-> applyTargetDate(lines[i], call.args.x)])
      [] call.op = "restoreOrderByNo" ->
             mapMatching(lines, call.args.n,
                 [i \in 1..Len(lines) |-> applyRestore(lines[i], call.args.x)])
      [] call.op = "deleteOrderByNo" ->
             SelectSeq(lines, LAMBDA o : o.orderNumber # call.args.n)
      [] OTHER -> lines

\* step 4 when it completes: the operation of the service on the local store
transported(item, call, times, rnds) ==
    CASE call.op = "createOrders" ->
             createOrders(item, call.args.data, call.args.n, times, rnds)
      [] call.op = "updateOrderStatusByNo" ->
             updateOrderStatusByNo(item, call.args.n, call.args.x)
      [] call.op = "updateOrderNotesByNo" ->
             updateOrderNotesByNo(item, call.args.n, Text(call.args.x))
      [] call.op = "updateOrderTargetDateByNo" ->
             updateOrderTargetDateByNo(item, call.args.n, call.args.x)
      [] call.op = "restoreOrderByNo" ->
             restoreOrderByNo(item, call.args.n, call.args.x)
      [] call.op = "deleteOrderByNo" ->
             deleteOrderByNo(item, call.args.n)
      [] OTHER -> item


MaxIssued == 2

\* the caller invokes one operation of the domain layer
Issued(op, args) ==
    /\ nCalls < MaxIssued
    /\ nCalls' = nCalls + 1
    /\ lastCall' = Call(op, args)
    /\ prevCall' = Before(lastCall)
    /\ UNCHANGED <<svc, envVars, adapterVars, formVars>>

InFlight == [kind |-> "in flight"]

\* the by-number writes a caller may issue
SampleOrderWrites ==
    [op : {"updateOrderStatusByNo"}, args : [n : {s_CAL_2023_001}, x : {COMPLETED}]]
    \cup [op : {"updateOrderNotesByNo"}, args : [n : {s_A1}, x : ArgNotes]]
    \cup [op : {"updateOrderTargetDateByNo"}, args : [n : {s_A1}, x : {"2024-03-01"}]]
    \cup [op : {"restoreOrderByNo"}, args : [n : {s_CAL_2023_001}, x : ArgReasons]]
    \cup [op : {"deleteOrderByNo"}, args : [n : {s_A1}, x : {"none"}]]

\* getOrders of the domain layer
GetOrdersThrough ==
    \E force \in BOOLEAN :
        \E read \in {getOrdersLocal(cal_orders)} :
            \E r \in {readThrough(cache, k_orders, force, now,
                                  filterLines(read.lines))} :
                /\ Issued("getOrders", [force |-> force])
                /\ cache' = r.cache
                /\ cal_orders' = IF r.from = "transport" THEN read.item
                                 ELSE cal_orders
                /\ lastResult' = [kind |-> "orders", lines |-> r.value,
                                  from |-> r.from]
                /\ UNCHANGED <<now, pending, otherItems>>

\* steps 1 to 4 of an optimistic write, up to the invocation of the transport
OptimisticWrite(op, args) ==
    /\ Len(pending) < MaxPending
    /\ Issued(op, args)
    /\ cache' = cacheSet(cacheGet(cache, k_orders, now).cache, k_orders,
                         projected(cachedOrders(cache, now),
                                   [op |-> op, args |-> args], now),
                         now)
    /\ pending' = Append(pending, [op |-> op, args |-> args])
    /\ lastResult' = InFlight
    /\ UNCHANGED <<cal_orders, now, otherItems>>

CreateOrdersOptimistic ==
    \E ordersData \in {p \in SamplePayloads : Len(p) = 2}, n \in {s_A1} :
        OptimisticWrite("createOrders", [n |-> n, x |-> "none", data |-> ordersData])

ChangeOrdersOptimistic ==
    \E call \in SampleOrderWrites : OptimisticWrite(call.op, call.args)

\* the transport call of an optimistic write completes; the cache is left alone
TransportSettles ==
    \E i \in 1..Len(pending) :
        \E times \in IF pending[i].op = "createOrders"
                     THEN ClockReadings(Readings(Len(pending[i].args.data)))
                     ELSE {<<now>>},
           rnds \in IF pending[i].op = "createOrders"
                    THEN {[k \in 1..Len(pending[i].args.data) |-> "r1"]}
                    ELSE {<<>>} :
            /\ cal_orders' = transported(cal_orders, pending[i], times, rnds)
            /\ now' = times[Len(times)]
            /\ pending' = SubSeq(pending, 1, i - 1)
                            \o SubSeq(pending, i + 1, Len(pending))
            /\ UNCHANGED <<cache, callVars, svc, envVars, adapterVars, otherItems,
                         formVars>>

\* time passes
Tick ==
    /\ now < MaxNow
    /\ now' = now + 1
    /\ UNCHANGED <<cache, pending, callVars, svc, cal_orders, envVars,
                   adapterVars, otherItems, formVars>>

\* the module is loaded in a runtime without bridge and endpoint
InitLocal ==
    /\ svc \in {"HybridGasService", "MockGasService"}
    /\ host = "none"
    /\ envUrl = Undefined
    /\ apiUrl = constructedApiUrl(envUrl)
    /\ cal_orders = NoItem
    /\ now = 0
    /\ OtherItemsIdle
    /\ AdapterIdle
    /\ CallsIdle

\* the application is mounted and its first getOrders has resolved: the order
\* lines it returned are cached
InitLoaded ==
    /\ svc \in {"HybridGasService", "MockGasService"}
    /\ host = "none"
    /\ envUrl = Undefined
    /\ apiUrl = constructedApiUrl(envUrl)
    /\ now = 0
    /\ cal_orders = getOrdersLocal(NoItem).item
    /\ cal_admin_pwd = NoValue
    /\ cal_inventory = NoValue
    /\ cal_customers = NoValue
    /\ cal_technicians = NoValue
    /\ cache = cacheSet([k \in CacheKeys |-> NoEntry], k_orders,
                        filterLines(getOrdersLocal(NoItem).lines), 0)
    /\ pending = <<>>
    /\ forms = [f \in Forms |-> NoForm]
    /\ AdapterIdle
    /\ CallsIdle

OptimisticNext ==
    \/ GetOrdersThrough
    \/ CreateOrdersOptimistic
    \/ ChangeOrdersOptimistic
    \/ TransportSettles
    \/ Tick

SpecOptimistic == InitLoaded /\ [][OptimisticNext]_vars


\* the line carries the order number and the fields of the submitted line
Carries(line, d, n) ==
    /\ line.orderNumber = n
    /\ line.equipmentNumber = d.equipmentNumber
    /\ line.quantity = d.quantity
    /\ line.unitPrice = d.unitPrice
    /\ line.discountRate = d.discountRate

StartsWithNewLines(lines, data, n) ==
    /\ Len(lines) >= Len(data)
    /\ \A i \in 1..Len(data) : Carries(lines[i], data[i], n)

IssuedStep(op) == nCalls' = nCalls + 1 /\ lastCall'.op = op

C12_CreateStep ==
    IssuedStep("createOrders") =>
        \A before \in {cachedOrders(cache, now)}, after \in {cache'[k_orders]} :
            /\ after.set
            /\ after.storedAt = now
            /\ StartsWithNewLines(after.value, lastCall'.args.data, lastCall'.args.n)
            /\ Len(after.value) = Len(lastCall'.args.data) + Len(before)
            /\ \A i \in 1..Len(before) :
                   after.value[Len(lastCall'.args.data) + i] = before[i]

C12_ReadStep ==
    (/\ IssuedStep("getOrders")
     /\ lastCall.op = "createOrders"
     /\ ~lastCall'.args.force
     /\ now - cache[k_orders].storedAt <= TTL)
        => /\ lastResult'.from = "cache"
           /\ lastResult'.lines = cache[k_orders].value
           /\ StartsWithNewLines(lastResult'.lines, lastCall.args.data,
                                 lastCall.args.n)

----------------------------------------------------------------------------
(* Calls of the inventory, customer and technician operations               *)

SampleProducts == {[name |-> "gauge", standardPrice |-> 900]}
SampleCustomerNames == {s_Acme}
SampleTechnicianNames == {"Kim"}

Items(value) == [kind |-> "items", value |-> value]
Record(value) == [kind |-> "record", value |-> value]

GetInventory ==
    /\ Called("getInventory", NoArgs)
    /\ IF dispatch = "mock"
       THEN /\ cal_inventory' = getInventory(cal_inventory).item
            /\ lastResult' = Items(getInventory(cal_inventory).value)
       ELSE /\ lastResult' = Remote
            /\ UNCHANGED cal_inventory
    /\ UNCHANGED <<cal_orders, now, cal_admin_pwd, cal_customers, cal_technicians>>

GetCustomers ==
    /\ Called("getCustomers", NoArgs)
    /\ IF dispatch = "mock"
       THEN /\ cal_customers' = getCustomers(cal_customers).item
            /\ lastResult' = Items(getCustomers(cal_customers).value)
       ELSE /\ lastResult' = Remote
            /\ UNCHANGED cal_customers
    /\ UNCHANGED <<cal_orders, now, cal_admin_pwd, cal_inventory, cal_technicians>>

GetTechnicians ==
    /\ Called("getTechnicians", NoArgs)
    /\ IF dispatch = "mock"
       THEN /\ cal_technicians' = getTechnicians(cal_technicians).item
            /\ lastResult' = Items(getTechnicians(cal_technicians).value)
       ELSE /\ lastResult' = Remote
            /\ UNCHANGED cal_technicians
    /\ UNCHANGED <<cal_orders, now, cal_admin_pwd, cal_inventory, cal_customers>>

AddProduct ==
    \E product \in SampleProducts, rnd \in SampleRandoms :
        /\ Called("addProduct", [n |-> <<>>, x |-> product])
        /\ now' = now + 1
        /\ IF dispatch = "mock"
           THEN \E w \in {addProduct(cal_inventory, product, now + 1, rnd)} :
                    /\ cal_inventory' = w.item
                    /\ lastResult' = Record(w.value)
           ELSE /\ lastResult' = Remote
                /\ UNCHANGED cal_inventory
        /\ UNCHANGED <<cal_orders, cal_admin_pwd, cal_customers, cal_technicians>>

AddCustomer ==
    \E name \in SampleCustomerNames, rnd \in SampleRandoms :
        /\ Called("addCustomer", [n |-> <<>>, x |-> name])
        /\ now' = now + 1
        /\ IF dispatch = "mock"
           THEN \E w \in {addCustomer(cal_customers, name, now + 1, rnd)} :
                    /\ cal_customers' = w.item
                    /\ lastResult' = Record(w.value)
           ELSE /\ lastResult' = Remote
                /\ UNCHANGED cal_customers
        /\ UNCHANGED <<cal_orders, cal_admin_pwd, cal_inventory, cal_technicians>>

AddTechnician ==
    \E name \in SampleTechnicianNames, rnd \in SampleRandoms :
        /\ Called("addTechnician", [n |-> <<>>, x |-> name])
        /\ now' = now + 1
        /\ IF dispatch = "mock"
           THEN \E w \in {addTechnician(cal_technicians, name, now + 1, rnd)} :
                    /\ cal_technicians' = w.item
                    /\ lastResult' = Record(w.value)
           ELSE /\ lastResult' = Remote
                /\ UNCHANGED cal_technicians
        /\ UNCHANGED <<cal_orders, cal_admin_pwd, cal_inventory, cal_customers>>

\* the ids a caller can pass: those of the listed technicians, or one of none
TechnicianIds ==
    {getTechnicians(cal_technicians).value[i].id :
        i \in 1..Len(getTechnicians(cal_technicians).value)} \cup {[lit |-> "t0"]}

RemoveTechnician ==
    \E id \in TechnicianIds :
        /\ Called("removeTechnician", [n |-> <<>>, x |-> id])
        /\ IF dispatch = "mock"
           THEN /\ cal_technicians' = removeTechnician(cal_technicians, id)
                /\ lastResult' = Void
           ELSE /\ lastResult' = Remote
                /\ UNCHANGED cal_technicians
        /\ UNCHANGED <<cal_orders, now, cal_admin_pwd, cal_inventory, cal_customers>>

ItemsNext ==
    \/ GetInventory
    \/ GetCustomers
    \/ GetTechnicians
    \/ AddProduct
    \/ AddCustomer
    \/ AddTechnician
    \/ RemoveTechnician
    \/ GetOrders
    \/ DeleteOrderByNo

SpecItems == Init /\ [][ItemsNext]_vars


----------------------------------------------------------------------------
(* Inventory, customers and technicians through the cache layer             *)

Served(r) == [kind |-> "items", value |-> r.value, from |-> r.from]

GetInventoryThrough ==
    \E force \in BOOLEAN :
        \E read \in {getInventory(cal_inventory)} :
            \E r \in {readThrough(cache, k_inventory, force, now, read.value)} :
                /\ Issued("getInventory", [force |-> force])
                /\ cache' = r.cache
                /\ cal_inventory' = IF r.from = "transport" THEN read.item
                                    ELSE cal_inventory
                /\ lastResult' = Served(r)
                /\ UNCHANGED <<now, pending, cal_orders, cal_admin_pwd,
                               cal_customers, cal_technicians>>

GetCustomersThrough ==
    \E force \in BOOLEAN :
        \E read \in {getCustomers(cal_customers)} :
            \E r \in {readThrough(cache, k_customers, force, now, read.value)} :
                /\ Issued("getCustomers", [force |-> force])
                /\ cache' = r.cache
                /\ cal_customers' = IF r.from = "transport" THEN read.item
                                    ELSE cal_customers
                /\ lastResult' = Served(r)
                /\ UNCHANGED <<now, pending, cal_orders, cal_admin_pwd,
                               cal_inventory, cal_technicians>>

GetTechniciansThrough ==
    \E force \in BOOLEAN :
        \E read \in {getTechnicians(cal_technicians)} :
            \E r \in {readThrough(cache, k_technicians, force, now, read.value)} :
                /\ Issued("getTechnicians", [force |-> force])
                /\ cache' = r.cache
                /\ cal_technicians' = IF r.from = "transport" THEN read.item
                                      ELSE cal_technicians
                /\ lastResult' = Served(r)
                /\ UNCHANGED <<now, pending, cal_orders, cal_admin_pwd,
                               cal_inventory, cal_customers>>

\* the write goes to the transport; once it has succeeded the entries of the
\* resource are invalidated
AddProductThrough ==
    \E product \in SampleProducts, rnd \in {"r1"} :
        \E w \in {addProduct(cal_inventory, product, now + 1, rnd)} :
            /\ Issued("addProduct", [x |-> product])
            /\ now' = now + 1
            /\ cal_inventory' = w.item
            /\ cache' = cacheInvalidate(cache, k_inventory)
            /\ lastResult' = Record(w.value)
            /\ UNCHANGED <<pending, cal_orders, cal_admin_pwd, cal_customers,
                           cal_technicians>>

AddCustomerThrough ==
    \E name \in SampleCustomerNames, rnd \in {"r1"} :
        \E w \in {addCustomer(cal_customers, name, now + 1, rnd)} :
            /\ Issued("addCustomer", [x |-> name])
            /\ now' = now + 1
            /\ cal_customers' = w.item
            /\ cache' = cacheInvalidate(cache, k_customers)
            /\ lastResult' = Record(w.value)
            /\ UNCHANGED <<pending, cal_orders, cal_admin_pwd, cal_inventory,
                           cal_technicians>>

AddTechnicianThrough ==
    \E name \in SampleTechnicianNames, rnd \in {"r1"} :
        \E w \in {addTechnician(cal_technicians, name, now + 1, rnd)} :
            /\ Issued("addTechnician", [x |-> name])
            /\ now' = now + 1
            /\ cal_technicians' = w.item
            /\ cache' = cacheInvalidate(cache, k_technicians)
            /\ lastResult' = Record(w.value)
            /\ UNCHANGED <<pending, cal_orders, cal_admin_pwd, cal_inventory,
                           cal_customers>>

CacheNext ==
    \/ GetInventoryThrough
    \/ GetCustomersThrough
    \/ GetTechniciansThrough
    \/ AddProductThrough
    \/ AddCustomerThrough
    \/ AddTechnicianThrough
    \/ Tick

SpecCache == InitLocal /\ [][CacheNext]_vars

\* the key a get operation of the domain layer reads
KeyOf(op) ==
    CASE op = "getInventory" -> k_inventory
      [] op = "getCustomers" -> k_customers
      [] op = "getTechnicians" -> k_technicians
      [] OTHER -> k_orders

GetOps == {"getInventory", "getCustomers", "getTechnicians"}

\* get(k) of the cache layer on the entries the program has stored
C13_GetWithinTTL ==
    \A k \in CacheKeys :
        cache[k].set =>
            \A g \in {cacheGet(cache, k, now)} :
                IF now <= cache[k].storedAt + TTL
                THEN g.hit /\ g.value = cache[k].value /\ g.cache = cache
                ELSE ~g.hit /\ ~g.cache[k].set
                       /\ \A other \in CacheKeys \ {k} : g.cache[other] = cache[other]

\* a get operation of the domain layer on a key that has an entry
C13_GetStep ==
    \A op \in GetOps :
        (IssuedStep(op) /\ cache[KeyOf(op)].set) =>
            IF ~lastCall'.args.force /\ now <= cache[KeyOf(op)].storedAt + TTL
            THEN /\ lastResult'.from = "cache"
                 /\ lastResult'.value = cache[KeyOf(op)].value
                 /\ cache' = cache
                 /\ UNCHANGED otherItems
            ELSE /\ lastResult'.from = "transport"
                 /\ cache'[KeyOf(op)].storedAt = now

C14_Step ==
    \A pair \in {<<"addCustomer", "getCustomers">>,
                 <<"addTechnician", "getTechnicians">>,
                 <<"addProduct", "getInventory">>} :
        (lastCall.op = pair[1] /\ IssuedStep(pair[2])) =>
            /\ lastResult'.from = "transport"
            /\ \E i \in 1..Len(lastResult'.value) :
                   lastResult'.value[i] = lastResult.value

----------------------------------------------------------------------------
(* The order numbers of the persisted lines                                 *)

\* C15: every persisted order line carries a non-empty orderNumber, whatever
\* createOrders and the by-number operations were called with
C15_PersistedNumbersNonEmpty ==
    \A i \in 1..Len(cal_orders.lines) : cal_orders.lines[i].orderNumber # <<>>


----------------------------------------------------------------------------
(* The order form (src/components/OrderForm.tsx): handleSubmit              *)

MaxSubmits == 2

CartItem(productId, saveToInventory, productName, price, quantity) ==
    [productId |-> productId, saveToInventory |-> saveToInventory,
     productName |-> productName, price |-> price, quantity |-> quantity]

\* the fields handleSubmit reads; discountRate keeps its default of 100
FormInput(orderNumber, customerQuery, targetDate, eqNumberQuery, eqNameQuery, cart) ==
    [orderNumber |-> orderNumber, customerQuery |-> customerQuery,
     targetDate |-> targetDate, eqNumberQuery |-> eqNumberQuery,
     eqNameQuery |-> eqNameQuery, cart |-> cart, discountRate |-> 100]

FieldLabels ==
    {"orderNumber", "customerName", "targetDate", "equipmentNumber",
     "equipmentName", "cart"}

\* a validation that does not look at the cart
missingFieldsIgnoringCart(in) ==
    {l \in FieldLabels :
        CASE l = "orderNumber" -> trim(in.orderNumber) = <<>>
          [] l = "customerName" -> trim(in.customerQuery) = <<>>
          [] l = "targetDate" -> in.targetDate = ""
          [] l = "equipmentNumber" -> trim(in.eqNumberQuery) = <<>>
          [] l = "equipmentName" -> trim(in.eqNameQuery) = <<>>
          [] l = "cart" -> FALSE}

\* step 2 of handleSubmit: the labels pushed to missingFields
missingFields(in) ==
    {l \in FieldLabels :
        CASE l = "orderNumber" -> trim(in.orderNumber) = <<>>
          [] l = "customerName" -> trim(in.customerQuery) = <<>>
          [] l = "targetDate" -> in.targetDate = ""
          [] l = "equipmentNumber" -> trim(in.eqNumberQuery) = <<>>
          [] l = "equipmentName" -> trim(in.eqNameQuery) = <<>>
          [] l = "cart" -> Len(in.cart) = 0}

EmptyInput == FormInput(<<>>, <<>>, "", <<>>, <<>>, <<>>)

\* a complete form: a new order number, a new customer, one new product to
\* be saved to the inventory and one product picked from it, at half price
CompleteInput ==
    [FormInput(s_A1, s_Acme, "2024-03-01", s_EQ(<<"7">>), <<"g","a","u","g","e">>,
               <<CartItem("", TRUE, "gauge", 1001, 1),
                 CartItem("1", FALSE, "item 1", 1201, 1)>>)
        EXCEPT !.discountRate = 50]

SampleInputs ==
    {CompleteInput,
     [CompleteInput EXCEPT !.orderNumber = s_CAL_2023_001,
                           !.customerQuery = s_customer("1"),
                           !.cart = <<CartItem("1", FALSE, "item 1", 1200, 1)>>],
     [CompleteInput EXCEPT !.orderNumber = <<" ">>],
     [CompleteInput EXCEPT !.customerQuery = <<>>],
     [CompleteInput EXCEPT !.targetDate = ""],
     [CompleteInput EXCEPT !.eqNumberQuery = <<>>],
     [CompleteInput EXCEPT !.eqNameQuery = <<" ">>],
     [CompleteInput EXCEPT !.cart = <<>>]}

\* a mounted form whose lists are loaded; nothing submitted yet
OpenForm(customers) ==
    [pc |-> "idle", input |-> EmptyInput, customers |-> customers, i |-> 0,
     reloading |-> FALSE, submits |-> 0, copyData |-> [t |-> "null"]]

\* customers.find(c => c.name === customerQuery)
existingCustomer(form) ==
    \E k \in 1..Len(form.customers) : form.customers[k].name = form.input.customerQuery

\* !finalProductId && item.saveToInventory
needsAddProduct(item) == item.productId = "" /\ item.saveToInventory

\* the loop over the cart from item i on runs up to the next awaited
\* addProduct, or to the end, where createOrders is called
cartFrom(form, i) ==
    IF \E j \in i..Len(form.input.cart) : needsAddProduct(form.input.cart[j])
    THEN [pc |-> "addProduct",
          i |-> CHOOSE j \in i..Len(form.input.cart) :
                    /\ needsAddProduct(form.input.cart[j])
                    /\ \A h \in i..(j - 1) : ~needsAddProduct(form.input.cart[h])]
    ELSE [pc |-> "createOrders", i |-> Len(form.input.cart) + 1]

\* orderPayloads
orderPayloads(in) ==
    [k \in 1..Len(in.cart) |->
        OrderData(in.eqNumberQuery, in.cart[k].quantity, in.cart[k].price,
                  in.discountRate, JUndef)]

\* the form calls one method of the service and awaits it
FormCalls(op, args) ==
    /\ nCalls' = nCalls + 1
    /\ lastCall' = Call(op, args)
    /\ prevCall' = Before(lastCall)

\* the arguments of the call the form awaits at pc
ArgsAt(form, pc, i) ==
    CASE pc = "addCustomer" -> [n |-> <<>>, x |-> form.input.customerQuery]
      [] pc = "addProduct" -> [n |-> <<>>, x |-> form.input.cart[i].productName]
      [] pc = "createOrders" ->
             [n |-> form.input.orderNumber, x |-> "none",
              data |-> orderPayloads(form.input)]
      [] OTHER -> [n |-> form.input.orderNumber, x |-> "none"]

\* the form goes on to its next awaited call
GoesOn(f, next) ==
    /\ forms' = [forms EXCEPT ![f] = [@ EXCEPT !.pc = next.pc, !.i = next.i]]
    /\ FormCalls(next.pc, ArgsAt(forms[f], next.pc, next.i))

\* handleSubmit up to its first await: validation, then checkOrderExists
Submit(f) ==
    /\ forms[f].pc = "idle"
    /\ forms[1].submits + forms[2].submits < MaxSubmits
    /\ \E in \in SampleInputs :
        IF missingFields(in) # {}
        THEN /\ forms' = [forms EXCEPT ![f] =
                             [@ EXCEPT !.input = in, !.submits = @ + 1]]
             /\ UNCHANGED callVars
        ELSE /\ forms' = [forms EXCEPT ![f] =
                             [@ EXCEPT !.input = in, !.submits = @ + 1,
                                       !.pc = "checkOrderExists"]]
             /\ FormCalls("checkOrderExists", [n |-> in.orderNumber, x |-> "none"])
             /\ UNCHANGED lastResult
    /\ UNCHANGED <<svc, cal_orders, now, otherItems, envVars, adapterVars, layerVars>>

\* checkOrderExists resolves: an existing number ends the submission, else
\* the customer is added when the form does not list it
CheckResolves(f) ==
    /\ forms[f].pc = "checkOrderExists"
    /\ \E read \in {getOrdersLocal(cal_orders)} :
        /\ cal_orders' = read.item
        /\ lastResult' = Boolean(someMatching(read.lines, forms[f].input.orderNumber))
        /\ IF someMatching(read.lines, forms[f].input.orderNumber)
           THEN /\ forms' = [forms EXCEPT ![f] = [@ EXCEPT !.pc = "idle"]]
                /\ UNCHANGED <<lastCall, prevCall, nCalls>>
           ELSE IF ~existingCustomer(forms[f])
                THEN GoesOn(f, [pc |-> "addCustomer", i |-> 0])
                ELSE GoesOn(f, cartFrom(forms[f], 1))
    /\ UNCHANGED <<svc, now, otherItems, envVars, adapterVars, layerVars>>

AddCustomerResolves(f) ==
    /\ forms[f].pc = "addCustomer"
    /\ \E w \in {addCustomer(cal_customers, forms[f].input.customerQuery,
                             now + 1, "r1")} :
        /\ cal_customers' = w.item
        /\ lastResult' = Record(w.value)
    /\ now' = now + 1
    /\ GoesOn(f, cartFrom(forms[f], 1))
    /\ UNCHANGED <<svc, cal_orders, cal_admin_pwd, cal_inventory, cal_technicians,
                   envVars, adapterVars, layerVars>>

AddProductResolves(f) ==
    /\ forms[f].pc = "addProduct"
    /\ \E item \in {forms[f].input.cart[forms[f].i]} :
        \E w \in {addProduct(cal_inventory,
                             [name |-> item.productName, standardPrice |-> item.price],
                             now + 1, "r1")} :
            /\ cal_inventory' = w.item
            /\ lastResult' = Record(w.value)
    /\ now' = now + 1
    /\ GoesOn(f, cartFrom(forms[f], forms[f].i + 1))
    /\ UNCHANGED <<svc, cal_orders, cal_admin_pwd, cal_customers, cal_technicians,
                   envVars, adapterVars, layerVars>>

\* createOrders resolves; the form asks for the inventory and the customers
\* again and is ready for the next submission
CreateResolves(f) ==
    /\ forms[f].pc = "createOrders"
    /\ \E data \in {orderPayloads(forms[f].input)} :
        \E times \in ClockReadings(Readings(Len(data))) :
            /\ cal_orders' = createOrders(cal_orders, data, forms[f].input.orderNumber,
                                          times, [k \in 1..Len(data) |-> "r1"])
            /\ now' = times[Len(times)]
    /\ lastResult' = Void
    /\ forms' = [forms EXCEPT ![f] = [@ EXCEPT !.pc = "idle", !.reloading = TRUE]]
    /\ nCalls' = nCalls + 2
    /\ lastCall' = Call("getCustomers", NoArgs)
    /\ prevCall' = Before(lastCall)
    /\ UNCHANGED <<svc, otherItems, envVars, adapterVars, layerVars>>

\* getInventory().then(setInventory) and getCustomers().then(setCustomers)
Reloaded(f) ==
    /\ forms[f].pc # "closed"
    /\ forms[f].reloading
    /\ cal_inventory' = getInventory(cal_inventory).item
    /\ cal_customers' = getCustomers(cal_customers).item
    /\ forms' = [forms EXCEPT ![f] =
                    [@ EXCEPT !.customers = getCustomers(cal_customers).value,
                              !.reloading = FALSE]]
    /\ UNCHANGED <<svc, cal_orders, now, cal_admin_pwd, cal_technicians, callVars,
                   envVars, adapterVars, layerVars>>

\* both forms are mounted and their lists loaded: MockGasService has stored
\* its fallback datasets, HybridGasService has not
InitForm ==
    /\ svc \in {"HybridGasService", "MockGasService"}
    /\ host = "none"
    /\ envUrl = Undefined
    /\ apiUrl = constructedApiUrl(envUrl)
    /\ now = 0
    /\ cal_admin_pwd = NoValue
    /\ cal_orders = getOrdersLocal(NoItem).item
    /\ cal_inventory = getInventory(NoValue).item
    /\ cal_customers = getCustomers(NoValue).item
    /\ cal_technicians = getTechnicians(NoValue).item
    /\ cache = [k \in CacheKeys |-> NoEntry]
    /\ pending = <<>>
    /\ forms = [f \in Forms |-> OpenForm(getCustomers(NoValue).value)]
    /\ AdapterIdle
    /\ CallsIdle

FormNext ==
    \E f \in Forms :
        \/ Submit(f)
        \/ CheckResolves(f)
        \/ AddCustomerResolves(f)
        \/ AddProductResolves(f)
        \/ CreateResolves(f)
        \/ Reloaded(f)

SpecForm == InitForm /\ [][FormNext]_vars


\* the text is empty or consists of white space
Blank(text) == \A k \in 1..Len(text) : text[k] \in WhiteSpace

\* a required field of the form is missing
RequiredFieldMissing(in) ==
    \/ Blank(in.orderNumber)
    \/ Blank(in.customerQuery)
    \/ in.targetDate = ""
    \/ Blank(in.eqNumberQuery)
    \/ Blank(in.eqNameQuery)
    \/ Len(in.cart) = 0

C16_Step ==
    \A f \in Forms :
        (/\ forms'[f].submits = forms[f].submits + 1
         /\ RequiredFieldMissing(forms'[f].input))
            => /\ forms'[f].pc = "idle"
               /\ nCalls' = nCalls
               /\ lastCall' = lastCall
               /\ UNCHANGED <<cal_orders, otherItems>>

\* C16: submitting the form with a required field missing (order number,
\* customer name, target date, equipment number, equipment name, or an empty
\* cart) calls no operation of the service and leaves every persisted
\* collection unchanged
C16_InvalidSubmitCallsNothing == [][C16_Step]_vars

\* a form was submitted with an empty cart and no call has been made
C16_Witness ==
    \E f \in Forms :
        /\ forms[f].submits = 1
        /\ Len(forms[f].input.cart) = 0
        /\ forms[f].pc = "idle"
        /\ nCalls = 0

LinesOf(lines, n) == SelectSeq(lines, LAMBDA o : o.orderNumber = n)

\* a submission whose order number exists among the order lines ends without
\* adding anything
C17_RejectStep ==
    \A f \in Forms :
        (/\ forms[f].pc = "checkOrderExists"
         /\ forms'[f].pc # "checkOrderExists"
         /\ LinesOf(cal_orders.lines, forms[f].input.orderNumber) # <<>>)
            => /\ forms'[f].pc = "idle"
               /\ nCalls' = nCalls
               /\ UNCHANGED <<cal_orders, otherItems>>

\* after the createOrders call of a submission the lines with its order
\* number are the lines of that call
C17_CreateStep ==
    \A f \in Forms :
        (forms[f].pc = "createOrders" /\ forms'[f].pc = "idle")
            => Len(LinesOf(cal_orders'.lines, forms[f].input.orderNumber))
                   = Len(forms[f].input.cart)

\* C17: a submission whose order number already exists is rejected and adds no
\* order line, customer or product, and after any sequence of submissions, two
\* in flight at once included, the lines sharing an orderNumber stem from one
\* createOrders call
C17_NoDuplicateOrderNumbers == [][C17_RejectStep /\ C17_CreateStep]_vars


----------------------------------------------------------------------------
(* Whole-order deletion and the creation date                               *)

OrderNumbersOf(lines) == {lines[i].orderNumber : i \in 1..Len(lines)}

\* deleteOrderByNo(n) on a stored collection leaves exactly the lines of the
\* other order numbers, in their order
C18_DeleteStep ==
    (LocalCallStep("deleteOrderByNo") /\ cal_orders.stored) =>
        cal_orders'.lines =
            SelectSeq(cal_orders.lines, LAMBDA o : o.orderNumber # lastCall'.args.n)

\* no operation other than createOrders changes how many lines an order
\* number has, except to none
C18_WholeOrderStep ==
    (nCalls' = nCalls + 1 /\ lastCall'.via = "mock" /\ cal_orders.stored
     /\ lastCall'.op # "createOrders") =>
        \A m \in OrderNumbersOf(cal_orders.lines) :
            Len(LinesOf(cal_orders'.lines, m)) \in {0, Len(LinesOf(cal_orders.lines, m))}

\* C18: deleteOrderByNo(n) removes from the persisted collection every line
\* whose orderNumber is n and no other line, keeping the order of the rest, and
\* no operation removes one line of an order while its sibling lines stay
C18_DeleteRemovesExactlyTheOrder == [][C18_DeleteStep /\ C18_WholeOrderStep]_vars


----------------------------------------------------------------------------
(* The fallback datasets                                                    *)

INITIAL_ORDERS == IF svc = "HybridGasService" THEN INITIAL_ORDERS_Hybrid
                  ELSE INITIAL_ORDERS_Mock

\* the reads of the three lists, each with its entry before and after the
\* step and its fallback dataset
ListReads ==
    {[op |-> "getInventory", before |-> cal_inventory, after |-> cal_inventory',
      initial |-> INITIAL_INVENTORY],
     [op |-> "getCustomers", before |-> cal_customers, after |-> cal_customers',
      initial |-> INITIAL_CUSTOMERS],
     [op |-> "getTechnicians", before |-> cal_technicians,
      after |-> cal_technicians', initial |-> INITIAL_TECHNICIANS]}

ListAdds ==
    {[op |-> "addProduct", before |-> cal_inventory, after |-> cal_inventory',
      initial |-> INITIAL_INVENTORY],
     [op |-> "addCustomer", before |-> cal_customers, after |-> cal_customers',
      initial |-> INITIAL_CUSTOMERS],
     [op |-> "addTechnician", before |-> cal_technicians,
      after |-> cal_technicians', initial |-> INITIAL_TECHNICIANS]}

\* C19 as stated: in local mode the first read of a resource whose entry is
\* absent returns the fallback dataset and leaves the entry holding it
C19_FirstReadSeedsStep ==
    /\ \A r \in ListReads :
        (LocalCallStep(r.op) /\ ~r.before.stored) =>
            /\ lastResult' = Items(r.initial)
            /\ r.after = Value(r.initial)
    /\ (LocalCallStep("getOrders") /\ ~cal_orders.stored) =>
            /\ lastResult'.lines = INITIAL_ORDERS
            /\ cal_orders' = Item(INITIAL_ORDERS)

C19_FirstReadSeeds == [][C19_FirstReadSeedsStep]_vars

\* a read with the entry absent returns the fallback dataset; MockGasService
\* stores it, HybridGasService leaves the entry absent
C19_ReadStep ==
    /\ \A r \in ListReads :
        (LocalCallStep(r.op) /\ ~r.before.stored) =>
            /\ lastResult' = Items(r.initial)
            /\ r.after = IF svc = "MockGasService" THEN Value(r.initial)
                         ELSE r.before
    /\ (LocalCallStep("getOrders") /\ ~cal_orders.stored) =>
            /\ lastResult'.lines = INITIAL_ORDERS
            /\ cal_orders' = IF svc = "MockGasService" THEN Item(INITIAL_ORDERS)
                             ELSE cal_orders

\* a mutation with the entry absent stores the fallback dataset with the
\* mutation applied to it
C19_MutationStep ==
    /\ \A r \in ListAdds :
        (LocalCallStep(r.op) /\ ~r.before.stored) =>
            r.after = Value(Append(r.initial, lastResult'.value))
    /\ (LocalCallStep("removeTechnician") /\ ~cal_technicians.stored) =>
            cal_technicians' =
                Value(SelectSeq(INITIAL_TECHNICIANS,
                                LAMBDA t : t.id # lastCall'.args.x))
    /\ (LocalCallStep("deleteOrderByNo") /\ ~cal_orders.stored) =>
            cal_orders' =
                Item(SelectSeq(INITIAL_ORDERS,
                               LAMBDA o : o.orderNumber # lastCall'.args.n))

\* C19, amended: in local mode a read of a resource whose entry is absent
\* returns the fallback dataset; MockGasService leaves the entry holding it,
\* HybridGasService leaves it absent; in both the first mutation stores the
\* fallback dataset with the mutation applied
C19_FirstReadReturnsFallback == [][C19_ReadStep /\ C19_MutationStep]_vars

\* HybridGasService has returned the fallback inventory and the entry is
\* still absent
C19_Witness ==
    /\ svc = "HybridGasService"
    /\ lastCall.op = "getInventory"
    /\ lastCall.via = "mock"
    /\ lastResult = Items(INITIAL_INVENTORY)
    /\ ~cal_inventory.stored


----------------------------------------------------------------------------
(* The creation date                                                        *)

CreateDates(lines) == [i \in 1..Len(lines) |-> lines[i].createDate]

\* the lines a create adds to the view are dated by a clock reading of the
\* call; the lines behind them keep their createDate
C20_CreateStep(before, after, created) ==
    \E shown \in {0, created} :
        /\ Len(after) = shown + Len(before)
        /\ \A i \in 1..Len(after) :
            IF i <= shown
            THEN after[i].createDate \in {IsoOfClock(t) : t \in (now + 1)..now'}
            ELSE after[i].createDate = before[i - shown].createDate

C20_Step ==
    (nCalls' = nCalls + 1 /\ lastCall'.via = "mock") =>
        \A before \in {ViewBefore}, after \in {ViewAfter} :
            CASE lastCall'.op = "createOrders" ->
                     C20_CreateStep(before, after, Len(lastCall'.args.data))
              [] lastCall'.op = "deleteOrderByNo" ->
                     CreateDates(after) =
                         CreateDates(SelectSeq(before,
                             LAMBDA o : o.orderNumber # lastCall'.args.n))
              [] OTHER -> CreateDates(after) = CreateDates(before)

\* C20: updateOrderStatusByNo, updateOrderNotesByNo, updateOrderTargetDateByNo
\* and restoreOrderByNo leave the createDate of every order line as it is, and
\* the lines of a createOrders call get their createDate at creation and keep
\* it under every later operation
C20_CreateDateImmutable == [][C20_Step]_vars

\* updateOrderTargetDateByNo has moved the target date of the seed order and
\* its lines still carry their creation date
C20_Witness ==
    /\ lastCall.op = "updateOrderTargetDateByNo"
    /\ lastCall.via = "mock"
    /\ lastCall.args = [n |-> s_CAL_2023_001, x |-> "2024-03-01"]
    /\ \E i \in 1..Len(Persisted) :
        /\ Persisted[i].orderNumber = s_CAL_2023_001
        /\ Persisted[i].targetDate = IsoOfText("2024-03-01")
        /\ Persisted[i].createDate = INITIAL_ORDERS_Mock[1].createDate


----------------------------------------------------------------------------
(* Calls in flight on the local store: each add and remove awaits its own   *)
(* delay, then the delay inside the get it calls, and then reads and writes *)
(* in one task                                                              *)

Unread == [read |-> FALSE]

\* the list a call works on
ResourceOf(op) ==
    CASE op \in {"addTechnician", "removeTechnician"} -> "technicians"
      [] op = "addCustomer" -> "customers"
      [] OTHER -> "inventory"

\* what a caller can start: names are tokens, the id is that of the fallback
\* technician
SampleStarts ==
    {[op |-> "addTechnician", x |-> "Kim"],
     [op |-> "removeTechnician", x |-> [lit |-> "t1"]],
     [op |-> "addCustomer", x |-> s_Acme],
     [op |-> "addProduct", x |-> [name |-> "gauge", standardPrice |-> 900]]}

\* a call that takes its list before the delay of the get
afterOwnDelayWithList(call, item) ==
    [call EXCEPT !.pc = "get", !.list = [read |-> TRUE, item |-> item]]

\* await delay(...) of the operation is over: the call is inside the get it
\* awaits, which has read nothing yet
afterOwnDelay(call, item) == [call EXCEPT !.pc = "get"]

\* the entry the call reads when the delay of the get is over
entryRead(call, item) == IF call.list.read THEN call.list.item ELSE item

\* the body after await this.get...(): [value, item]
resumed(call, item, t, rnd) ==
    CASE call.op = "addTechnician" ->
             addTechnician(entryRead(call, item), call.x, t, rnd)
      [] call.op = "removeTechnician" ->
             [value |-> "void", item |-> removeTechnician(entryRead(call, item), call.x)]
      [] call.op = "addCustomer" ->
             addCustomer(entryRead(call, item), call.x, t, rnd)
      [] OTHER -> addProduct(entryRead(call, item), call.x, t, rnd)

EntryOf(resource) ==
    CASE resource = "technicians" -> cal_technicians
      [] resource = "customers" -> cal_customers
      [] OTHER -> cal_inventory

\* timers of one length fire in the order they were set: the calls on a list
\* that were started earlier are ahead
Ahead(i) ==
    \A j \in 1..(i - 1) :
        ResourceOf(pending[j].op) = ResourceOf(pending[i].op)
            => pending[j].pc = "get"

Start ==
    \E c \in SampleStarts :
        /\ Len(pending) < MaxPending + 1
        /\ Issued(c.op, [x |-> c.x])
        /\ pending' = Append(pending, [op |-> c.op, x |-> c.x, pc |-> "delay",
                                       list |-> Unread, at |-> now,
                                       k |-> nCalls + 1, with |-> Len(pending)])
        /\ UNCHANGED <<lastResult, cache, cal_orders, now, otherItems>>

OwnDelayOver ==
    \E i \in 1..Len(pending) :
        /\ pending[i].pc = "delay"
        /\ now > pending[i].at
        /\ Ahead(i)
        /\ pending' = [pending EXCEPT ![i] =
                          afterOwnDelay(@, EntryOf(ResourceOf(@.op)))]
        /\ UNCHANGED <<cache, callVars, svc, cal_orders, now, envVars, adapterVars,
                       otherItems, formVars>>

\* the delay of the get is over: the call reads, writes and resolves; the clock
\* reads now, and Math.random() gives a token no other call has had
Resumes ==
    \E i \in 1..Len(pending) :
        /\ pending[i].pc = "get"
        /\ \A j \in 1..(i - 1) : ResourceOf(pending[j].op) # ResourceOf(pending[i].op)
        /\ \E w \in {resumed(pending[i], EntryOf(ResourceOf(pending[i].op)), now,
                           pending[i].k)} :
            /\ cal_technicians' = IF ResourceOf(pending[i].op) = "technicians"
                                  THEN w.item ELSE cal_technicians
            /\ cal_customers' = IF ResourceOf(pending[i].op) = "customers"
                                THEN w.item ELSE cal_customers
            /\ cal_inventory' = IF ResourceOf(pending[i].op) = "inventory"
                                THEN w.item ELSE cal_inventory
            /\ lastResult' = [kind |-> "resolved", op |-> pending[i].op,
                              x |-> pending[i].x, value |-> w.value,
                              k |-> pending[i].k, with |-> pending[i].with]
        /\ pending' = SubSeq(pending, 1, i - 1) \o SubSeq(pending, i + 1, Len(pending))
        /\ UNCHANGED <<cache, lastCall, prevCall, nCalls, svc, cal_orders, now,
                       cal_admin_pwd, envVars, adapterVars, formVars>>

InFlightNext ==
    \/ Start
    \/ OwnDelayOver
    \/ Resumes
    \/ Tick

SpecInFlight == InitLocal /\ [][InFlightNext]_vars


\* the list a reader is given for an entry
Listed(item, initial) == IF item.stored THEN item.value ELSE initial

\* a call in flight resolved in this step
ResumeStep == Len(pending') < Len(pending) /\ lastResult'.kind = "resolved"

C21_TechniciansStep ==
    (ResumeStep /\ ResourceOf(lastResult'.op) = "technicians") =>
        /\ Listed(cal_technicians', INITIAL_TECHNICIANS)
               = IF lastResult'.op = "addTechnician"
                 THEN Append(Listed(cal_technicians, INITIAL_TECHNICIANS),
                             lastResult'.value)
                 ELSE SelectSeq(Listed(cal_technicians, INITIAL_TECHNICIANS),
                                LAMBDA t : t.id # lastResult'.x)
        /\ UNCHANGED <<cal_customers, cal_inventory>>

C21_OtherListsStep ==
    /\ (ResumeStep /\ lastResult'.op = "addCustomer") =>
           /\ Listed(cal_customers', INITIAL_CUSTOMERS)
                  = Append(Listed(cal_customers, INITIAL_CUSTOMERS), lastResult'.value)
           /\ UNCHANGED <<cal_technicians, cal_inventory>>
    /\ (ResumeStep /\ lastResult'.op = "addProduct") =>
           /\ Listed(cal_inventory', INITIAL_INVENTORY)
                  = Append(Listed(cal_inventory, INITIAL_INVENTORY), lastResult'.value)
           /\ UNCHANGED <<cal_technicians, cal_customers>>

\* C21: calls on the local store interleave only at their delays, and a call
\* that resumes applies its change to the list as it is stored at that moment:
\* the list it leaves is that list with its record appended (or with the record
\* of its id removed), so of two calls in flight together neither loses the
\* change of the other
C21_NoLostUpdate == [][C21_TechniciansStep /\ C21_OtherListsStep]_vars

\* two addTechnician calls were in flight together, both have resolved and both
\* records are in the stored list
C21_Witness ==
    /\ pending = <<>>
    /\ lastResult.kind = "resolved"
    /\ lastResult.op = "addTechnician"
    /\ lastResult.with = 1
    /\ cal_technicians.stored
    /\ Len(cal_technicians.value) = Len(INITIAL_TECHNICIANS) + 2


UniqueIds(list) ==
    \A i, j \in 1..Len(list) : list[i].id = list[j].id => i = j

\* C22: within each stored collection no two records share an id, whatever
\* calls were in flight together and whatever the clock read when they resumed
C22_IdsUnique ==
    /\ UniqueIds(Listed(cal_technicians, INITIAL_TECHNICIANS))
    /\ UniqueIds(Listed(cal_customers, INITIAL_CUSTOMERS))
    /\ UniqueIds(Listed(cal_inventory, INITIAL_INVENTORY))


----------------------------------------------------------------------------
(* The embedded-host adapter (SpecAdapter)                                  *)

\* C23: callGasBackend settles as the host calls back: on the failure callback
\* it rejects with the host's error as it is; on the success callback it
\* resolves, with the normalized response, or the normalized parse of a string
\* response, or that string itself when it is not JSON
C23_SettlesPerCallback ==
    settled.op = "callGasBackend" =>
        IF wire.outcome = "failure"
        THEN settled.state = "rejected" /\ settled.value = wire.error
        ELSE /\ settled.state = "resolved"
             /\ settled.value =
                    IF wire.response.t # "str" THEN normalizeData(wire.response)
                    ELSE IF wire.response.s \in {t_emptyArray, t_null, t_seven, t_record}
                         THEN normalizeData(JSONparse(wire.response.s))
                         ELSE wire.response

\* a string response that is not JSON was handed to the caller as it came
C23_Witness ==
    /\ settled.op = "callGasBackend"
    /\ settled.state = "resolved"
    /\ wire.response = JStr(t_garbage)
    /\ settled.value = JStr(t_garbage)


----------------------------------------------------------------------------
(* Frame of the by-number updates (Spec)                                    *)

\* the fields an update is about (restoreOrderByNo of MockGasService also
\* puts the reason into the notes)
FieldsOf(op) ==
    CASE op = "updateOrderStatusByNo" -> {"status", "isArchived"}
      [] op = "updateOrderNotesByNo" -> {"notes"}
      [] op = "updateOrderTargetDateByNo" -> {"targetDate"}
      [] op = "restoreOrderByNo" -> {"isArchived", "status", "resurrectReason", "notes"}
      [] OTHER -> {}

SameExcept(a, b, fields) ==
    /\ DOMAIN a = DOMAIN b
    /\ \A f \in DOMAIN a \ fields : a[f] = b[f]

C24_Step ==
    (/\ nCalls' = nCalls + 1
     /\ lastCall'.via = "mock"
     /\ FieldsOf(lastCall'.op) # {}
     /\ cal_orders.stored) =>
        \A before \in {cal_orders.lines}, after \in {cal_orders'.lines},
           n \in {lastCall'.args.n} :
            /\ SelectSeq(after, LAMBDA o : o.orderNumber # n)
                   = SelectSeq(before, LAMBDA o : o.orderNumber # n)
            /\ Len(after) = Len(before)
            /\ \A i \in 1..Len(before) :
                   SameExcept(after[i], before[i], FieldsOf(lastCall'.op))

\* C24: updateOrderStatusByNo, updateOrderNotesByNo, updateOrderTargetDateByNo
\* and restoreOrderByNo with order number n leave every persisted line of
\* another order number as it is and in place, and change on the lines of n
\* only the fields they are about
C24_UpdatesKeepOtherLines == [][C24_Step]_vars


----------------------------------------------------------------------------
(* A created order is found again (Spec)                                    *)

C25_Step ==
    (/\ LocalCallStep("createOrders")
     /\ trim(lastCall'.args.n) # <<>>
     /\ lastCall'.args.data # <<>>) =>
        \A after \in {ViewAfter}, n \in {lastCall'.args.n},
           created \in {Len(lastCall'.args.data)} :
            /\ someMatching(after, n)
            /\ Len(after) >= created
            /\ \A i \in 1..created :
                /\ after[i].orderNumber = n
                /\ after[i].equipmentNumber = lastCall'.args.data[i].equipmentNumber

\* C25: after createOrders(data, n) with a non-empty data list and an order
\* number n that is not blank, checkOrderExists(n) answers true and getOrders
\* returns the created lines
C25_CreatedOrderIsFound == [][C25_Step]_vars


----------------------------------------------------------------------------
(* A refused password change (SpecAdmin)                                    *)

C26_Step ==
    (/\ LocalCallStep("changeAdminPassword")
     /\ ~checkAdminPassword(cal_admin_pwd, lastCall'.args.oldPwd)) =>
        /\ lastResult' = Boolean(FALSE)
        /\ cal_admin_pwd' = cal_admin_pwd
        /\ \A input \in SamplePasswords :
               checkAdminPassword(cal_admin_pwd', input)
                   = checkAdminPassword(cal_admin_pwd, input)

\* C26: changeAdminPassword(old, new) with an old password that
\* checkAdminPassword does not accept returns false and leaves the stored
\* password as it is, so checkAdminPassword answers as before
C26_RefusedChangeKeepsPassword == [][C26_Step]_vars

\* a password was set, and a later change with a wrong old password was refused
C26_Witness ==
    /\ lastCall.op = "changeAdminPassword"
    /\ lastCall.via = "mock"
    /\ lastCall.args.oldPwd = s_0000
    /\ lastResult = Boolean(FALSE)
    /\ cal_admin_pwd = Value(s_1234)


----------------------------------------------------------------------------
(* A target date that is no date (Spec)                                     *)

\* the order lines of the store: those of the entry, or the fallback dataset
Effective(item) == IF item.stored THEN item.lines ELSE INITIAL_ORDERS

C27_Step ==
    (/\ LocalCallStep("updateOrderTargetDateByNo")
     /\ ~ValidDate(lastCall'.args.x)) =>
        Effective(cal_orders') = Effective(cal_orders)

\* C27: updateOrderTargetDateByNo(n, d) with a text d that is no date leaves
\* the persisted order lines as they are: no field of a line is changed and no
\* line is added or removed
C27_InvalidDateChangesNothing == [][C27_Step]_vars


----------------------------------------------------------------------------
(* The total on the form and the totals stored (SpecForm)                   *)

RECURSIVE subTotalFrom(_, _)
\* cart.reduce((sum, item) => sum + (item.price * item.quantity), 0)
subTotalFrom(cart, k) ==
    IF k > Len(cart) THEN 0
    ELSE cart[k].price * cart[k].quantity + subTotalFrom(cart, k + 1)

subTotal(in) == subTotalFrom(in.cart, 1)

\* Math.round(subTotal * (discountRate / 100))
finalTotal(in) == MathRound(fmulInt(subTotal(in), fdiv(in.discountRate, 100)))

RECURSIVE sumTotalAmount(_, _)
sumTotalAmount(lines, k) ==
    IF k = 0 THEN 0 ELSE lines[k].totalAmount + sumTotalAmount(lines, k - 1)

C28_Step ==
    \A f \in Forms :
        (forms[f].pc = "createOrders" /\ forms'[f].pc = "idle") =>
            sumTotalAmount(cal_orders'.lines, Len(forms[f].input.cart))
                = finalTotal(forms[f].input)

\* C28: the grand total of the form, round(sum of price x quantity, times
\* discountRate / 100), equals the sum of the totalAmount of the lines that
\* createOrders stores for the cart and rate of the form
C28_FormTotalIsSumOfLines == [][C28_Step]_vars


----------------------------------------------------------------------------
(* The discount rate of the order form (SpecDiscount)                       *)

\* discount rates of the order lines a form may be opened with as copyData
TemplateRates == {0, 1, 50, 100}

CopyData(discountRate) ==
    [customerName |-> s_customer("1"), equipmentNumber |-> s_EQ(<<"0","0","1">>),
     equipmentName |-> <<"g","a","u","g","e">>, discountRate |-> discountRate,
     productId |-> "1", productName |-> "item 1", unitPrice |-> 1200, quantity |-> 1]

\* what the number field can hand to onChange, and Number(...) of it
TypedRates == {"", "0", "7", "50", "150", "-3"}

Number(text) ==
    CASE text = "" -> 0
      [] text = "0" -> 0
      [] text = "7" -> 7
      [] text = "50" -> 50
      [] text = "150" -> 150
      [] text = "-3" -> 0 - 3

MathMin(a, b) == IF a < b THEN a ELSE b
MathMax(a, b) == IF a > b THEN a ELSE b

\* a prefill that takes the rate of the template as it is
prefilledRateAsGiven(copyData) == copyData.discountRate

\* copyData.discountRate || 100
prefilledRate(copyData) ==
    IF copyData.discountRate # 0 THEN copyData.discountRate ELSE 100

\* the body of if (copyData) { ... } in the mount effect
prefilled(in, copyData) ==
    [in EXCEPT !.customerQuery = copyData.customerName,
               !.eqNumberQuery = copyData.equipmentNumber,
               !.eqNameQuery = copyData.equipmentName,
               !.discountRate = prefilledRate(copyData),
               !.cart = <<CartItem(copyData.productId, FALSE, copyData.productName,
                                   copyData.unitPrice, copyData.quantity)>>]

\* the effect on [copyData] runs for a new template: the lists are read again
\* (they are loaded, so no entry changes), the target date is set a week ahead
\* and the form is prefilled
CopyDataChanges(f) ==
    /\ forms[f].pc = "idle"
    /\ \E rate \in TemplateRates :
        forms' = [forms EXCEPT ![f] =
                     [@ EXCEPT !.input = prefilled([@ EXCEPT !.targetDate = "2024-03-01"],
                                                   CopyData(rate)),
                               !.copyData = CopyData(rate)]]
    /\ UNCHANGED <<svc, cal_orders, now, otherItems, callVars, envVars, adapterVars,
                   layerVars>>

\* onChange of the rate field:
\* setDiscountRate(Math.min(100, Math.max(0, Number(e.target.value))))
SetDiscountRate(f) ==
    /\ forms[f].pc = "idle"
    /\ \E text \in TypedRates :
        forms' = [forms EXCEPT ![f] =
                     [@ EXCEPT !.input =
                         [@ EXCEPT !.discountRate =
                             MathMin(100, MathMax(0, Number(text)))]]]
    /\ UNCHANGED <<svc, cal_orders, now, otherItems, callVars, envVars, adapterVars,
                   layerVars>>

DiscountNext == \E f \in Forms : CopyDataChanges(f) \/ SetDiscountRate(f)

SpecDiscount == InitForm /\ [][DiscountNext]_vars

C29_PrefillStep ==
    \A f \in Forms :
        forms'[f].copyData # forms[f].copyData =>
            forms'[f].input.discountRate = forms'[f].copyData.discountRate

C29_RateInRange ==
    \A f \in Forms :
        /\ forms[f].input.discountRate \in 0..100
        /\ \A k \in 1..Len(forms[f].input.cart) :
               orderPayloads(forms[f].input)[k].discountRate \in 0..100

\* C29: a form prefilled from a copy template holds the discountRate of the
\* template, for every template rate in 0..100, and the rate the form holds and
\* sends in its order lines is always an integer in 0..100
C29_PrefillKeepsRate == []C29_RateInRange /\ [][C29_PrefillStep]_vars


----------------------------------------------------------------------------
(* No field is lost by the Key Normalizer (SpecAdapter)                     *)

RECURSIVE FieldsKept(_, _)
\* y holds every field of x under its rewritten key
FieldsKept(x, y) ==
    CASE x.t = "arr" ->
           /\ y.t = "arr"
           /\ Len(y.items) = Len(x.items)
           /\ \A i \in 1..Len(x.items) : FieldsKept(x.items[i], y.items[i])
      [] x.t = "obj" ->
           /\ y.t = "obj"
           /\ Len(y.entries) = Len(x.entries)
           /\ \A i \in 1..Len(x.entries) :
                /\ HasKey(y, Rewritten(x.entries[i].k))
                /\ FieldsKept(x.entries[i].v, GetProp(y, Rewritten(x.entries[i].k)))
      [] OTHER -> y = x

\* C30: the record normalizeData returns has as many keys as the record it was
\* given, and holds under each rewritten key the normalized value of that
\* field, also when two keys of the input are rewritten to the same key
C30_NormalizeKeepsEveryField ==
    AdapterResolved => FieldsKept(RawData(wire), settled.value)

====
